---- MODULE Spec2Model ----
(***************************************************************************)
(* Routing-and-health subsystem of the proxy gateway: backend registry     *)
(* (coreConfigs / activeConfigs), health sweeps (updateCoreStatuses), the   *)
(* three selectors of ProxyService, the intelligentRouter pipeline with    *)
(* its forwarding callbacks and metrics store, and the session / token     *)
(* middleware (requireAuth, optionalAuth).                                 *)
(*                                                                         *)
(* Strings that the code inspects character by character (request paths,  *)
(* user ids) are sequences: paths are sequences of one-character strings,  *)
(* user ids are sequences of UTF-16 code units.                            *)
(***************************************************************************)
EXTENDS Integers, Sequences, FiniteSets, TLC

VARIABLES
  isActive,          \* coreConfigs[i].isActive, by backend name
  activeConfigs,     \* ProxyService.activeConfigs: sequence of backend names
  reachable,         \* environment: does the backend answer its health check with 2xx in time
  currentCoreIndex,  \* ProxyService.currentCoreIndex
  sweeps,            \* running updateCoreStatuses() invocations: index of the probe awaited, 0 = not running
  ret,               \* the last direct selector call: operation, argument, returned backend, repeated call
  affinity,          \* history: per user id, the backend selectCoreByUser returned under the current activeConfigs
  rrHist,            \* history: backends returned by selectCore since activeConfigs last changed
  req,               \* the requests: position in the middleware chain, inputs, req.user, response
  requestMetrics,    \* ProxyService.requestMetrics
  outcomeLog,        \* history: every outcome ever pushed to requestMetrics, in arrival order
  uuids,             \* number of ids uuidv4() has produced
  sessions,          \* the session store: session id -> session data
  now,               \* Date.now(), in milliseconds
  usedSids,          \* history: the session ids under which a session was ever stored
  loggedOut          \* history: the session ids whose session a logout destroyed

regVars == <<isActive, activeConfigs, reachable, sweeps>>
selVars == <<currentCoreIndex, ret, affinity, rrHist>>
fwdVars == <<requestMetrics, outcomeLog, uuids>>
authVars == <<sessions, now, usedSids, loggedOut>>
vars == <<isActive, activeConfigs, reachable, currentCoreIndex, sweeps, ret, affinity, rrHist,
          req, requestMetrics, outcomeLog, uuids, sessions, now, usedSids, loggedOut>>

-----------------------------------------------------------------------------
(* Bounds of the model *)

MaxSweeps == 1
MaxCounter == 10

-----------------------------------------------------------------------------
(* Configuration *)

Null == "null"

coreConfigs == <<"core-api-1", "core-api-2", "core-api-3">>

NumCores == Len(coreConfigs)

CoreNames == {coreConfigs[i] : i \in 1..NumCores}

\* user ids of SessionService.users, as UTF-16 code units: "1" and "2"
UserId1 == <<49>>
UserId2 == <<50>>
UserIds == {UserId1, UserId2}

\* req.path values seen by the selectors
PathApiV1 == <<"/", "a", "p", "i", "/", "v", "1", "/", "x">>
PathApiV2 == <<"/", "a", "p", "i", "/", "v", "2", "/", "x">>
PathApiV3 == <<"/", "a", "p", "i", "/", "v", "3", "/", "x">>
PathV1 == <<"/", "v", "1", "/", "x">>
PathV2 == <<"/", "v", "2", "/", "x">>
PathV3 == <<"/", "v", "3", "/", "x">>
PathUsers == <<"/", "u", "s", "e", "r", "s">>
PrefixV1 == <<"/", "a", "p", "i", "/", "v", "1">>
PrefixV2 == <<"/", "a", "p", "i", "/", "v", "2">>
PrefixV3 == <<"/", "a", "p", "i", "/", "v", "3">>

Paths == {PathApiV1, PathApiV2, PathApiV3, PathV1, PathUsers}

-----------------------------------------------------------------------------
(* Pure helpers *)

\* String.prototype.startsWith
startsWith(s, p) == Len(s) >= Len(p) /\ SubSeq(s, 1, Len(p)) = p

\* coreConfigs.filter(config => config.isActive)
filterActive(flags) == SelectSeq(coreConfigs, LAMBDA c : flags[c])

\* Array.prototype.find(c => c.name === name) over a sequence of backend names
find(active, name) == IF \E i \in 1..Len(active) : active[i] = name THEN name ELSE Null

\* One round of the loop of simpleHash on the 32-bit value h:
\*   hash = ((hash << 5) - hash) + char;  hash = hash & hash
\* that is ToInt32(31 * h + char). The checker's integers are 32 bits wide, so
\* the product is formed on the two 16-bit halves of h.
hashStep(h, char) ==
  LET lo == h % 65536
      hi == (h \div 65536) % 65536
      lo31 == lo * 31 + char
      newLo == lo31 % 65536
      newHi == (hi * 31 + (lo31 \div 65536)) % 65536
  IN IF newHi >= 32768 THEN (newHi - 65536) * 65536 + newLo ELSE newHi * 65536 + newLo

RECURSIVE hashFrom(_, _, _)
hashFrom(h, str, i) ==
  IF i > Len(str) THEN h ELSE hashFrom(hashStep(h, str[i]), str, i + 1)

\* the value of `hash` when the loop of simpleHash ends (a signed 32-bit integer)
foldedHash(str) == hashFrom(0, str, 1)

MinInt32 == -2147483647 - 1

\* faulty variant of absMod: without Math.abs the remainder takes the sign
\* of the hash (C34 fails with it)
absModSigned(h, n) ==
  IF h = MinInt32 THEN 0 - (((2147483647 % n) + 1) % n)
  ELSE IF h < 0 THEN 0 - ((-h) % n) ELSE h % n

\* Math.abs(h) % n for a signed 32-bit h; Math.abs(-2^31) is 2^31, which is
\* reduced without being formed
absMod(h, n) ==
  IF h = MinInt32 THEN ((2147483647 % n) + 1) % n
  ELSE IF h < 0 THEN (-h) % n ELSE h % n

\* simpleHash(userId) % n
simpleHashMod(str, n) == absMod(foldedHash(str), n)

\* simpleHash(str), that is Math.abs(hash), as its two 16-bit halves: the
\* value is hi * 65536 + lo. Math.abs(-2^31) is 2^31 (hi = 32768, lo = 0).
simpleHash(str) ==
  LET h == foldedHash(str)
      a == IF h < 0 THEN -h ELSE h
  IN IF h = MinInt32 THEN [hi |-> 32768, lo |-> 0]
     ELSE [hi |-> a \div 65536, lo |-> a % 65536]

-----------------------------------------------------------------------------
(* Selectors: each returns the backend and the new value of the counter *)

\* faulty variant of selectCore: the counter is not advanced (C7 fails with it)
selectCoreNoAdvance(active, idx) ==
  IF Len(active) = 0 THEN [core |-> Null, idx |-> idx]
  ELSE [core |-> active[(idx % Len(active)) + 1], idx |-> idx]

selectCore(active, idx) ==
  IF Len(active) = 0 THEN [core |-> Null, idx |-> idx]
  ELSE [core |-> active[(idx % Len(active)) + 1], idx |-> idx + 1]

\* faulty variant of selectCoreByUser: the shared counter is mixed into the
\* index (C5 fails with it)
selectCoreByUserShifted(active, userId) ==
  IF Len(active) = 0 THEN Null
  ELSE active[((simpleHashMod(userId, Len(active)) + currentCoreIndex) % Len(active)) + 1]

selectCoreByUser(active, userId) ==
  IF Len(active) = 0 THEN Null
  ELSE LET coreIndex == simpleHashMod(userId, Len(active))
       IN IF coreIndex \in 0..(Len(active) - 1) THEN active[coreIndex + 1] ELSE Null

\* faulty variant of orElseSelectCore: the counter advances on a prefix hit
\* too (C27 fails with it)
orElseSelectCoreCounting(found, active, idx) ==
  IF found # Null THEN [core |-> found, idx |-> idx + 1] ELSE selectCore(active, idx)

\* `find(...) || this.selectCore({} as Request)`
orElseSelectCore(found, active, idx) ==
  IF found # Null THEN [core |-> found, idx |-> idx] ELSE selectCore(active, idx)

selectCoreByPath(active, idx, path) ==
  IF Len(active) = 0 THEN [core |-> Null, idx |-> idx]
  ELSE IF startsWith(path, PrefixV1) THEN orElseSelectCore(find(active, "core-api-1"), active, idx)
  ELSE IF startsWith(path, PrefixV2) THEN orElseSelectCore(find(active, "core-api-2"), active, idx)
  ELSE IF startsWith(path, PrefixV3) THEN orElseSelectCore(find(active, "core-api-3"), active, idx)
  ELSE selectCore(active, idx)

-----------------------------------------------------------------------------
(* Health sweeps *)

\* checkCoreHealth: response.ok of a fetch aborted after 5 s; every failure gives false
checkCoreHealth(c) == reachable[c]

\* the history variables start over when the value of activeConfigs changes
HistAfter(newActive, hist, fresh) == IF newActive = activeConfigs THEN hist ELSE fresh

NoAffinity == [u \in UserIds |-> "unset"]

NoRet == [op |-> "none", arg |-> <<>>, core |-> Null, again |-> FALSE]

\* the history entry of a user after selectCoreByUser returned c for it
noteAffinity(aff, u, c) == [aff EXCEPT ![u] = c]

\* faulty variant of SweepWrite: activeConfigs is recomputed from the flags
\* as they were before the last probe's result is written (C23 fails with it)
SweepWriteStale(pos) ==
  LET c == coreConfigs[pos]
      flags == [isActive EXCEPT ![c] = checkCoreHealth(c)]
      newActive == IF pos = NumCores THEN filterActive(isActive) ELSE activeConfigs
  IN /\ isActive' = flags
     /\ activeConfigs' = newActive
     /\ affinity' = HistAfter(newActive, affinity, NoAffinity)
     /\ rrHist' = HistAfter(newActive, rrHist, <<>>)

\* one resumption of updateCoreStatuses after `await checkCoreHealth(config)`:
\* the flag of the probed backend is written, and after the last backend
\* activeConfigs is recomputed from the flags
SweepWrite(pos) ==
  LET c == coreConfigs[pos]
      flags == [isActive EXCEPT ![c] = checkCoreHealth(c)]
      newActive == IF pos = NumCores THEN filterActive(flags) ELSE activeConfigs
  IN /\ isActive' = flags
     /\ activeConfigs' = newActive
     /\ affinity' = HistAfter(newActive, affinity, NoAffinity)
     /\ rrHist' = HistAfter(newActive, rrHist, <<>>)

SweepIds == 1..MaxSweeps

\* updateCoreStatuses() is called (timer, administrative request): the first probe is issued
StartSweep(s) ==
  /\ sweeps[s] = 0
  /\ sweeps' = [sweeps EXCEPT ![s] = 1]
  /\ UNCHANGED <<isActive, activeConfigs, reachable, selVars, req, fwdVars, authVars>>

SweepStep(s) ==
  /\ sweeps[s] > 0
  /\ SweepWrite(sweeps[s])
  /\ sweeps' = [sweeps EXCEPT ![s] = IF sweeps[s] = NumCores THEN 0 ELSE sweeps[s] + 1]
  /\ UNCHANGED <<reachable, currentCoreIndex, ret, req, fwdVars, authVars>>

\* the abort of the probe's fetch, in milliseconds
ProbeTimeout == 5000

\* how a health-check request can end: a response with some status after
\* some milliseconds, or no connection
ProbeStatuses == {199, 200, 204, 299, 304, 404, 500}

ProbeOutcomes ==
  {[kind |-> "response", status |-> st, ms |-> t] :
     st \in ProbeStatuses, t \in {1, ProbeTimeout - 1, ProbeTimeout + 1}}
    \cup {[kind |-> "refused", status |-> 0, ms |-> 1]}

\* `await fetch(url, {signal})` with controller.abort() after ProbeTimeout:
\* the response, or a thrown error (no connection, or the abort came first)
fetch(outcome) ==
  IF outcome.kind = "response" /\ outcome.ms < ProbeTimeout
  THEN [thrown |-> FALSE, ok |-> outcome.status >= 200 /\ outcome.status <= 299]
  ELSE [thrown |-> TRUE, ok |-> FALSE]

\* faulty variant of checkCoreHealthOf: without the catch, a failed fetch
\* rejects the promise (C26 fails with it)
checkCoreHealthUncaught(outcome) ==
  LET response == fetch(outcome)
  IN [thrown |-> response.thrown, value |-> response.ok]

\* checkCoreHealth on a probe that ends with outcome: response.ok, or false
\* from the catch block
checkCoreHealthOf(outcome) ==
  LET response == fetch(outcome)
  IN IF response.thrown THEN [thrown |-> FALSE, value |-> FALSE]
     ELSE [thrown |-> FALSE, value |-> response.ok]

\* the ways the health check of backend c can end, given reachable[c]
answersOf(c) ==
  {o \in ProbeOutcomes :
     reachable[c] <=> (/\ o.kind = "response" /\ o.ms < ProbeTimeout
                       /\ o.status \in 200..299)}

\* one resumption of updateCoreStatuses with the probe's course spelled out:
\* the awaited checkCoreHealth ends with outcome; if it threw, the sweep
\* would end there with a rejected promise
ProbedSweepStep(s, outcome) ==
  /\ sweeps[s] > 0
  /\ outcome \in answersOf(coreConfigs[sweeps[s]])
  /\ LET pos == sweeps[s]
         c == coreConfigs[pos]
         isHealthy == checkCoreHealthOf(outcome)
         flags == [isActive EXCEPT ![c] = isHealthy.value]
         newActive == IF pos = NumCores THEN filterActive(flags) ELSE activeConfigs
     IN /\ ret' = [op |-> "checkCoreHealth", arg |-> outcome, core |-> c, again |-> FALSE,
                   thrown |-> isHealthy.thrown]
        /\ IF isHealthy.thrown
           THEN /\ sweeps' = [sweeps EXCEPT ![s] = 0]
                /\ UNCHANGED <<isActive, activeConfigs, affinity, rrHist>>
           ELSE /\ sweeps' = [sweeps EXCEPT ![s] = IF pos = NumCores THEN 0 ELSE pos + 1]
                /\ isActive' = flags
                /\ activeConfigs' = newActive
                /\ affinity' = HistAfter(newActive, affinity, NoAffinity)
                /\ rrHist' = HistAfter(newActive, rrHist, <<>>)
  /\ UNCHANGED <<reachable, currentCoreIndex, req, fwdVars, authVars>>

-----------------------------------------------------------------------------
(* Direct calls of the selectors *)

WindowLen == 3 * NumCores

\* the last WindowLen entries of hist \o <<c>>
pushWindow(hist, c) ==
  LET h == Append(hist, c)
  IN IF Len(h) > WindowLen THEN SubSeq(h, Len(h) - WindowLen + 1, Len(h)) ELSE h

CallSelectCore ==
  LET r == selectCore(activeConfigs, currentCoreIndex)
  IN /\ r.idx <= MaxCounter
     /\ currentCoreIndex' = r.idx
     /\ ret' = [op |-> "selectCore", arg |-> <<>>, core |-> r.core, again |-> FALSE]
     /\ rrHist' = IF r.core = Null THEN rrHist ELSE pushWindow(rrHist, r.core)
     /\ UNCHANGED <<regVars, affinity, req, fwdVars, authVars>>

CallSelectCoreByUser(u) ==
  LET c == selectCoreByUser(activeConfigs, u)
  IN /\ ret' = [op |-> "selectCoreByUser", arg |-> u, core |-> c, again |-> affinity[u] # "unset"]
     /\ affinity' = noteAffinity(affinity, u, c)
     /\ UNCHANGED <<regVars, currentCoreIndex, rrHist, req, fwdVars, authVars>>

\* ids given to selectCoreByUser: the two users' ids and longer strings, as
\* UTF-16 code units: "admin", "abcdefg", "zzzzzz" and "GydZG_"
IdAdmin == <<97, 100, 109, 105, 110>>
IdAbcdefg == <<97, 98, 99, 100, 101, 102, 103>>
IdZzzzzz == <<122, 122, 122, 122, 122, 122>>
IdGydZG == <<71, 121, 100, 90, 71, 95>>
HashIds == UserIds \cup {IdAdmin, IdAbcdefg, IdZzzzzz, IdGydZG}

\* selectCoreByUser(userId) is called directly with any id; the hash, the
\* index and the set selected from are kept with the result
CallSelectCoreByUserId(userId) ==
  /\ ret' = [op |-> "simpleHash", arg |-> userId,
             core |-> selectCoreByUser(activeConfigs, userId), again |-> FALSE,
             hash |-> simpleHash(userId),
             coreIndex |-> IF Len(activeConfigs) = 0 THEN 0
                           ELSE simpleHashMod(userId, Len(activeConfigs)),
             active |-> activeConfigs]
  /\ UNCHANGED <<regVars, currentCoreIndex, affinity, rrHist, req, fwdVars, authVars>>

CallSelectCoreByPath(p) ==
  LET r == selectCoreByPath(activeConfigs, currentCoreIndex, p)
  IN /\ r.idx <= MaxCounter
     /\ currentCoreIndex' = r.idx
     /\ ret' = [op |-> "selectCoreByPath", arg |-> p, core |-> r.core, again |-> FALSE]
     /\ rrHist' = IF r.idx = currentCoreIndex THEN rrHist ELSE pushWindow(rrHist, r.core)
     /\ UNCHANGED <<regVars, affinity, req, fwdVars, authVars>>

-----------------------------------------------------------------------------
(* Sessions and tokens *)

SessionTimeout == 3600000
JwtExpiresIn == 86400000

AdminUser ==
  [id |-> UserId1, username |-> "admin", role |-> "admin", permissions |-> <<"read", "write", "delete">>]
PlainUser ==
  [id |-> UserId2, username |-> "user", role |-> "user", permissions |-> <<"read">>]

users == <<AdminUser, PlainUser>>

\* a session that carries no data (no login happened on it)
\* absent values: no user id (the empty string), no date, no req.user, no Authorization header
NoUserId == <<>>
NoTime == -1
NoUser == [anonymous |-> TRUE]
NoToken == [bearer |-> FALSE]
NoBody == [empty |-> TRUE]

EmptySession == [userId |-> NoUserId, userRole |-> Null, lastActivity |-> NoTime]

SessionIds == {"s1", "s2"}

\* what the session middleware puts in req.session for the cookie of the request
loadSession(sid) ==
  IF sid \in SessionIds THEN sessions[sid] ELSE EmptySession

\* session.save(): the store entry of the request's session id is written
storeSession(sid, session) ==
  IF sid \in SessionIds THEN [sessions EXCEPT ![sid] = session] ELSE sessions

\* the session middleware at the end of the response: a session that carries
\* data is written back from the request's own copy
saveAtEnd(rq) ==
  IF rq.session.userId # NoUserId THEN storeSession(rq.sid, rq.session) ELSE sessions

\* faulty variant of isSessionValid: a session idle for exactly the timeout
\* still counts as valid (C10 fails with it)
isSessionValidInclusive(sessionData, t) ==
  IF sessionData.userId = NoUserId \/ sessionData.lastActivity = NoTime THEN FALSE
  ELSE (t - sessionData.lastActivity) <= SessionTimeout

isSessionValid(sessionData, t) ==
  IF sessionData.userId = NoUserId \/ sessionData.lastActivity = NoTime THEN FALSE
  ELSE (t - sessionData.lastActivity) < SessionTimeout

getUserFromSession(sessionData) ==
  IF sessionData.userId = NoUserId THEN NoUser
  ELSE IF \E i \in 1..Len(users) : users[i].id = sessionData.userId
       THEN users[CHOOSE i \in 1..Len(users) : users[i].id = sessionData.userId]
       ELSE NoUser

\* generateJWT: the payload, signed with the server's secret, expiring JwtExpiresIn after issue
generateJWT(user, t) ==
  [payload |-> [userId |-> user.id, username |-> user.username, role |-> user.role],
   signed |-> TRUE, exp |-> t + JwtExpiresIn]

\* faulty variant of verifyJWT: the expiry is not checked (C14 fails with it)
verifyJWTNoExpiry(token, t) ==
  IF token.signed THEN token.payload ELSE NoUser

\* verifyJWT: the payload, or null when the signature or the expiry check fails
verifyJWT(token, t) ==
  IF token.signed /\ t < token.exp THEN token.payload ELSE NoUser

\* the Authorization header: absent, or `Bearer <token>`
bearerUser(token, t) == IF token = NoToken THEN NoUser ELSE verifyJWT(token, t)

\* tokens presented: none, a forged one, the plain user's (issued at time 0)
GoodToken == generateJWT(PlainUser, 0)
BadToken == [generateJWT(AdminUser, 0) EXCEPT !.signed = FALSE]
Tokens == {NoToken, BadToken, GoodToken}

\* optionalAuth: req.user and req.session after the middleware
optionalAuth(session, token, t) ==
  IF session.userId # NoUserId /\ isSessionValid(session, t)
  THEN [session |-> [session EXCEPT !.lastActivity = t], user |-> getUserFromSession(session)]
  ELSE [session |-> session, user |-> bearerUser(token, t)]

-----------------------------------------------------------------------------
(* The /api pipeline: optionalAuth, intelligentRouter, forwarding callbacks *)

MaxReq == 1

ReqIds == 1..MaxReq

\* requests to the /auth and /proxy routes that may be in progress together
MaxAuthReq == 2

AuthReqIds == 1..MaxAuthReq

FirstSlot == CHOOSE r \in AuthReqIds : \A q \in AuthReqIds : r <= q

SlotIds == ReqIds \cup AuthReqIds

MetricsCapacity == 1000

\* URLs of client requests that reach the /api mount
UrlApiV1 == PathApiV1
UrlApiV2 == PathApiV2
UrlApiV3 == PathApiV3
UrlApiUsers == <<"/", "a", "p", "i">> \o PathUsers
UrlApiApiV1 == <<"/", "a", "p", "i">> \o PathApiV1
Urls == {UrlApiV1, UrlApiV2, UrlApiV3, UrlApiUsers, UrlApiApiV1}

MountApi == <<"/", "a", "p", "i">>

\* req.path inside a handler mounted with app.use('/api', ...): the mount
\* path is removed from the front of the URL
mountedPath(url) ==
  IF Len(url) = Len(MountApi) THEN <<"/">> ELSE SubSeq(url, Len(MountApi) + 1, Len(url))

\* status codes a backend answers with
BackendStatuses == {200, 500}

NewReq ==
  [pc |-> "new", url |-> <<>>, sid |-> Null, token |-> NoToken, session |-> EmptySession,
   user |-> NoUser, sweepPos |-> 0, core |-> Null, requestId |-> 0, status |-> 0, error |-> "none",
   handler |-> FALSE, route |-> "none", body |-> NoBody, issued |-> NoToken, identity |-> NoUser,
   proxyReqId |-> 0, dispatchedAt |-> NoTime, json |-> NoBody]

\* faulty variant of recordMetrics: the oldest MetricsCapacity entries are
\* kept (C8 fails with it)
recordMetricsKeepOldest(store, metrics) ==
  LET pushed == Append(store, metrics)
  IN IF Len(pushed) > MetricsCapacity
     THEN SubSeq(pushed, 1, MetricsCapacity)
     ELSE pushed

\* this.requestMetrics.push(metrics); keep the last MetricsCapacity entries
recordMetrics(store, metrics) ==
  LET pushed == Append(store, metrics)
  IN IF Len(pushed) > MetricsCapacity
     THEN SubSeq(pushed, Len(pushed) - MetricsCapacity + 1, Len(pushed))
     ELSE pushed

\* metrics.reduce((sum, m) => sum + m.responseTime, 0), over the entries lo..hi
RECURSIVE sumResponseTime(_, _, _)
sumResponseTime(metrics, lo, hi) ==
  IF lo > hi THEN 0
  ELSE IF lo = hi THEN metrics[lo].responseTime
  ELSE LET mid == (lo + hi) \div 2
       IN sumResponseTime(metrics, lo, mid) + sumResponseTime(metrics, mid + 1, hi)

\* Math.round of the quotient of two non-negative integers
roundDiv(sum, n) == (2 * sum + n) \div (2 * n)

\* metrics.reduce((acc, m) => { acc[m.statusCode] = (acc[m.statusCode] || 0) + 1; ... }, {})
statusCodeCounts(metrics) ==
  [k \in {metrics[i].statusCode : i \in 1..Len(metrics)} |->
     Cardinality({i \in 1..Len(metrics) : metrics[i].statusCode = k})]

\* metrics.reduce((acc, m) => { acc[m.targetCore] = (acc[m.targetCore] || 0) + 1; ... }, {})
coreUsage(metrics) ==
  [k \in {metrics[i].targetCore : i \in 1..Len(metrics)} |->
     Cardinality({i \in 1..Len(metrics) : metrics[i].targetCore = k})]

\* the number of entries of recentMetrics
RecentCount == 50

\* metrics.slice(-RecentCount)
sliceRecent(metrics) ==
  IF Len(metrics) <= RecentCount THEN metrics
  ELSE SubSeq(metrics, Len(metrics) - RecentCount + 1, Len(metrics))

\* faulty variant of getMetricsResponse: the statistics are computed over
\* the recent entries only (C33 fails with it)
getMetricsResponseOverRecent(store) ==
  LET metrics == sliceRecent(store)
      totalRequests == Len(metrics)
      avgResponseTime == IF totalRequests > 0
                         THEN roundDiv(sumResponseTime(metrics, 1, totalRequests), totalRequests)
                         ELSE 0
  IN [summary |-> [totalRequests |-> totalRequests,
                   avgResponseTime |-> avgResponseTime,
                   statusCodeCounts |-> statusCodeCounts(metrics),
                   coreUsage |-> coreUsage(metrics)],
      recentMetrics |-> sliceRecent(metrics)]

\* the body of the response of GET /proxy/metrics, computed from
\* ProxyService.getMetrics()
getMetricsResponse(store) ==
  LET metrics == store
      totalRequests == Len(metrics)
      avgResponseTime == IF totalRequests > 0
                         THEN roundDiv(sumResponseTime(metrics, 1, totalRequests), totalRequests)
                         ELSE 0
  IN [summary |-> [totalRequests |-> totalRequests,
                   avgResponseTime |-> avgResponseTime,
                   statusCodeCounts |-> statusCodeCounts(metrics),
                   coreUsage |-> coreUsage(metrics)],
      recentMetrics |-> sliceRecent(metrics)]

\* faulty variant of routerSelect: when nothing is selected the first
\* configured backend is used (C4 fails with it)
routerSelectDefaulting(active, idx, session, path) ==
  IF Len(active) = 0
  THEN [core |-> coreConfigs[1], idx |-> idx, by |-> "path"]
  ELSE IF session.userId # NoUserId
       THEN [core |-> selectCoreByUser(active, session.userId), idx |-> idx, by |-> "user"]
       ELSE LET r == selectCoreByPath(active, idx, path)
            IN [core |-> r.core, idx |-> r.idx, by |-> "path"]

\* the selection of intelligentRouter: by user when the session carries a
\* user id, else by path
routerSelect(active, idx, session, path) ==
  IF session.userId # NoUserId
  THEN [core |-> selectCoreByUser(active, session.userId), idx |-> idx, by |-> "user"]
  ELSE LET r == selectCoreByPath(active, idx, path)
       IN [core |-> r.core, idx |-> r.idx, by |-> "path"]

\* faulty variant of Route: the counter is written back from a value read
\* before another request in flight advanced it (C28 fails with it)
RouteLosingUpdate(r, active, rq) ==
  LET sel == routerSelect(active, currentCoreIndex, rq.session, mountedPath(rq.url))
  IN /\ sel.idx <= MaxCounter
     /\ currentCoreIndex' = IF \E q \in SlotIds \ {r} : req[q].pc \in {"dispatched", "proxying"}
                            THEN currentCoreIndex ELSE sel.idx
     /\ affinity' = IF sel.by = "user"
                    THEN noteAffinity(HistAfter(active, affinity, NoAffinity), rq.session.userId, sel.core)
                    ELSE HistAfter(active, affinity, NoAffinity)
     /\ rrHist' = IF sel.idx = currentCoreIndex
                  THEN HistAfter(active, rrHist, <<>>)
                  ELSE pushWindow(HistAfter(active, rrHist, <<>>), sel.core)
     /\ req' = [req EXCEPT ![r] =
                  IF sel.core = Null
                  THEN [rq EXCEPT !.pc = "done", !.status = 503, !.error = "Service Unavailable", !.sweepPos = 0]
                  ELSE [rq EXCEPT !.pc = "dispatched", !.core = sel.core, !.sweepPos = 0]]
     /\ sessions' = IF sel.core = Null THEN saveAtEnd(rq) ELSE sessions

\* intelligentRouter after the optional sweep: select, then answer 503 or hand
\* the request to the proxy middleware of the selected backend
Route(r, active, rq) ==
  LET sel == routerSelect(active, currentCoreIndex, rq.session, mountedPath(rq.url))
  IN /\ sel.idx <= MaxCounter
     /\ currentCoreIndex' = sel.idx
     /\ affinity' = IF sel.by = "user"
                    THEN noteAffinity(HistAfter(active, affinity, NoAffinity), rq.session.userId, sel.core)
                    ELSE HistAfter(active, affinity, NoAffinity)
     /\ rrHist' = IF sel.idx = currentCoreIndex
                  THEN HistAfter(active, rrHist, <<>>)
                  ELSE pushWindow(HistAfter(active, rrHist, <<>>), sel.core)
     /\ req' = [req EXCEPT ![r] =
                  IF sel.core = Null
                  THEN [rq EXCEPT !.pc = "done", !.status = 503, !.error = "Service Unavailable", !.sweepPos = 0]
                  ELSE [rq EXCEPT !.pc = "dispatched", !.core = sel.core, !.sweepPos = 0]]
     /\ sessions' = IF sel.core = Null THEN saveAtEnd(rq) ELSE sessions

\* a client request for a URL under /api is received
Arrive(r, url, sid, token) ==
  /\ req[r].pc = "new"
  /\ \A q \in ReqIds : q < r => req[q].pc # "new"
  /\ req' = [req EXCEPT ![r] = [@ EXCEPT !.pc = "arrived", !.url = url, !.sid = sid, !.token = token]]
  /\ UNCHANGED <<regVars, selVars, fwdVars, authVars>>

\* the session is loaded; optionalAuth and intelligentRouter run
Handle(r, sweepFirst) ==
  /\ req[r].pc = "arrived"
  /\ LET auth == optionalAuth(loadSession(req[r].sid), req[r].token, now)
         rq == [req[r] EXCEPT !.session = auth.session, !.user = auth.user]
     IN IF sweepFirst
        THEN /\ req' = [req EXCEPT ![r] = [rq EXCEPT !.pc = "sweeping", !.sweepPos = 1]]
             /\ UNCHANGED <<currentCoreIndex, affinity, rrHist, sessions>>
        ELSE Route(r, activeConfigs, rq)
  /\ UNCHANGED <<regVars, ret, fwdVars, now, usedSids, loggedOut>>

\* the sweep awaited by intelligentRouter resumes after a probe; after the
\* last probe the router continues in the same turn
RouterSweepStep(r) ==
  /\ req[r].pc = "sweeping"
  /\ LET pos == req[r].sweepPos
         c == coreConfigs[pos]
         flags == [isActive EXCEPT ![c] = checkCoreHealth(c)]
     IN /\ isActive' = flags
        /\ IF pos < NumCores
           THEN /\ req' = [req EXCEPT ![r].sweepPos = pos + 1]
                /\ UNCHANGED <<activeConfigs, currentCoreIndex, affinity, rrHist, sessions>>
           ELSE /\ activeConfigs' = filterActive(flags)
                /\ Route(r, filterActive(flags), req[r])
  /\ UNCHANGED <<reachable, sweeps, ret, fwdVars, now, usedSids, loggedOut>>

\* onProxyReq: the outgoing request (proxyReq) exists, its headers copied
\* from the client's request, and got its socket; the handler draws the id
\* and sets it as header x-request-id of the client's request object.
\* dispatchedAt is history: the time at which the request left for the backend.
OnProxyReq(r) ==
  /\ req[r].pc = "dispatched"
  /\ uuids' = uuids + 1
  /\ req' = [req EXCEPT ![r] = [@ EXCEPT !.pc = "proxying", !.proxyReqId = req[r].requestId,
                                         !.requestId = uuids + 1, !.dispatchedAt = now]]
  /\ UNCHANGED <<regVars, selVars, requestMetrics, outcomeLog, authVars>>

\* onProxyRes: the backend answered; the outcome is recorded and the response relayed
OnProxyRes(r, statusCode) ==
  /\ req[r].pc = "proxying"
  /\ LET startTime == now
         metrics == [requestId |-> req[r].requestId, targetCore |-> req[r].core,
                     responseTime |-> now - startTime, statusCode |-> statusCode,
                     timestamp |-> now]
     IN /\ requestMetrics' = recordMetrics(requestMetrics, metrics)
        /\ outcomeLog' = Append(outcomeLog, metrics)
  /\ req' = [req EXCEPT ![r] = [@ EXCEPT !.pc = "done", !.status = statusCode]]
  /\ sessions' = saveAtEnd(req[r])
  /\ UNCHANGED <<regVars, selVars, uuids, now, usedSids, loggedOut>>

\* faulty variant of OnError: the backend that failed is flagged inactive
\* (C25 fails with it)
OnErrorMarkingDown(r) ==
  /\ req[r].pc = "proxying"
  /\ req' = [req EXCEPT ![r] = [@ EXCEPT !.pc = "done", !.status = 502, !.error = "Bad Gateway"]]
  /\ sessions' = saveAtEnd(req[r])
  /\ isActive' = [isActive EXCEPT ![req[r].core] = FALSE]
  /\ UNCHANGED <<activeConfigs, reachable, sweeps, selVars, fwdVars, now, usedSids, loggedOut>>

\* onError: the backend could not be reached or timed out
OnError(r) ==
  /\ req[r].pc = "proxying"
  /\ req' = [req EXCEPT ![r] = [@ EXCEPT !.pc = "done", !.status = 502, !.error = "Bad Gateway"]]
  /\ sessions' = saveAtEnd(req[r])
  /\ UNCHANGED <<regVars, selVars, fwdVars, now, usedSids, loggedOut>>

\* faulty variant of OnErrorLate: the 502 goes out although a response was
\* sent already (C30 fails with it)
OnErrorLateSending(r) ==
  /\ req[r].pc = "done"
  /\ req[r].core # Null
  /\ req[r].status \in BackendStatuses
  /\ req[r].error = "none"
  /\ req' = [req EXCEPT ![r] = [@ EXCEPT !.status = 502, !.error = "Bad Gateway"]]
  /\ UNCHANGED <<regVars, selVars, fwdVars, authVars>>

\* onError after onProxyRes: the connection to the backend breaks while the
\* body of its response is being relayed. The head of the response is with
\* the client, so res.status(502).json(...) throws ERR_HTTP_HEADERS_SENT
\* when it sets its headers, and nothing more is sent.
OnErrorLate(r) ==
  /\ req[r].pc = "done"
  /\ req[r].core # Null
  /\ req[r].status \in BackendStatuses
  /\ req[r].error = "none"
  /\ req' = [req EXCEPT ![r] = [@ EXCEPT !.error = "ERR_HTTP_HEADERS_SENT"]]
  /\ UNCHANGED <<regVars, selVars, fwdVars, authVars>>

\* The ways a forward ends, told apart by what the backend does. A backend
\* that does not answer its health check does not answer a forwarded request
\* either: the connection is refused, or nothing comes back at all.
BackendAnswers(r, statusCode) ==
  /\ req[r].pc = "proxying"
  /\ reachable[req[r].core]
  /\ OnProxyRes(r, statusCode)

ConnectionFails(r) ==
  /\ req[r].pc = "proxying"
  /\ ~reachable[req[r].core]
  /\ OnError(r)

\* faulty variant of ProxyTimer: no timeout is set on the outgoing request,
\* so the proxy waits for as long as the backend stays silent (C31 fails
\* with it)
ProxyTimerUnset(r) ==
  /\ req[r].pc = "proxying"
  /\ reachable[req[r].core]
  /\ OnError(r)

\* timeout: 30000, proxyTimeout: 30000: the timer of the forward elapses
\* before a response came; the outgoing request is aborted and onError runs
ProxyTimer(r) ==
  /\ req[r].pc = "proxying"
  /\ OnError(r)

\* A request is forwarded and answered with the other requests left out:
\* onProxyReq draws the request id, onProxyRes records the outcome. The
\* backends are used in rotation and answer 200.
MaxOutcomes == 1002

Forwarded(statusCode) ==
  /\ uuids < MaxOutcomes
  /\ uuids' = uuids + 1
  /\ LET startTime == now
         metrics == [requestId |-> uuids + 1, targetCore |-> coreConfigs[(uuids % NumCores) + 1],
                     responseTime |-> now - startTime, statusCode |-> statusCode, timestamp |-> now]
     IN /\ requestMetrics' = recordMetrics(requestMetrics, metrics)
        /\ outcomeLog' = Append(outcomeLog, metrics)
  /\ UNCHANGED <<regVars, selVars, req, authVars>>

ForwardedResponse == Forwarded(200)

-----------------------------------------------------------------------------
(* Routes behind requireAuth (GET /proxy/status, GET /auth/me, ...) *)

UrlProxyStatus == <<"/", "p", "r", "o", "x", "y", "/", "s", "t", "a", "t", "u", "s">>

\* session.destroy(): the store entry is removed
destroyed(sid) == IF sid \in SessionIds THEN [sessions EXCEPT ![sid] = EmptySession] ELSE sessions

\* requireAuth, after the global optionalAuth, on the request object rq:
\* `next` tells whether the route handler is reached, `destroy` whether
\* session.destroy was called (its callback sends the response later)
requireAuth(rq, t) ==
  IF rq.session.userId # NoUserId
  THEN IF isSessionValid(rq.session, t)
       THEN [next |-> TRUE, destroy |-> FALSE, status |-> 0, error |-> "none",
             session |-> [rq.session EXCEPT !.lastActivity = t], user |-> rq.user]
       ELSE [next |-> FALSE, destroy |-> TRUE, status |-> 0, error |-> "none",
             session |-> rq.session, user |-> rq.user]
  ELSE IF bearerUser(rq.token, t) # NoUser
       THEN [next |-> TRUE, destroy |-> FALSE, status |-> 0, error |-> "none",
             session |-> rq.session, user |-> bearerUser(rq.token, t)]
       ELSE [next |-> FALSE, destroy |-> FALSE, status |-> 401, error |-> "Unauthorized",
             session |-> rq.session, user |-> rq.user]

\* a request is pending: received, its response not sent yet
pending(rq) == rq.pc \notin {"new", "done"}

\* no answered request is waiting for its object to be released
released == \A q \in AuthReqIds : req[q].pc # "done"

\* a new request object takes the first slot not held by a pending request
freeSlot(r) ==
  /\ released
  /\ req[r].pc = "new"
  /\ \A q \in AuthReqIds : q < r => pending(req[q])

\* the request objects with rq in slot r
placed(r, rq) == [req EXCEPT ![r] = rq]

\* the response of request r has been sent: its request object is released
Release(r) ==
  /\ req[r].pc = "done"
  /\ req' = [req EXCEPT ![r] = NewReq]
  /\ UNCHANGED <<regVars, selVars, fwdVars, authVars>>

\* the request object after the session middleware and the global optionalAuth
received(route, sid, token, body) ==
  LET auth == optionalAuth(loadSession(sid), token, now)
  IN [NewReq EXCEPT !.route = route, !.sid = sid, !.token = token, !.body = body,
                    !.session = auth.session, !.user = auth.user]

\* the request object after requireAuth (res): rejected at once, waiting for
\* session.destroy, or handed to the next handler
afterRequireAuth(rq, res) ==
  [rq EXCEPT !.session = res.session, !.user = res.user,
             !.pc = IF res.destroy THEN "destroying" ELSE IF res.next THEN "next" ELSE "done",
             !.status = res.status, !.error = res.error]

\* the route handler answers 200 at once
answered(rq) == [rq EXCEPT !.pc = "done", !.handler = TRUE, !.status = 200]

\* a request for a route guarded by requireAuth alone (GET /proxy/status) is
\* received and runs through optionalAuth, requireAuth and, when admitted,
\* the route handler
ProtectedRequest(r, sid, token) ==
  /\ freeSlot(r)
  /\ LET rq == [received("GET /proxy/status", sid, token, NoBody) EXCEPT !.url = UrlProxyStatus]
         res == requireAuth(rq, now)
         rq2 == afterRequireAuth(rq, res)
     IN /\ sessions' = IF res.destroy THEN destroyed(sid) ELSE saveAtEnd(rq2)
        /\ req' = placed(r, IF res.next THEN answered(rq2) ELSE rq2)
  /\ UNCHANGED <<regVars, selVars, fwdVars, now, usedSids, loggedOut>>

\* the callback of session.destroy in requireAuth: the cookie is cleared and 401 is sent
DestroyCallback(r) ==
  /\ released
  /\ req[r].pc = "destroying"
  /\ req' = [req EXCEPT ![r] = [@ EXCEPT !.pc = "done", !.status = 401, !.error = "Session Expired"]]
  /\ UNCHANGED <<regVars, selVars, fwdVars, authVars>>

-----------------------------------------------------------------------------
(* The other routes: /auth/status, /auth/login, /auth/logout, /auth/refresh, *)
(* /proxy/metrics, /proxy/health-check, and requirePermission               *)

\* tokens presented to these routes: also the admin's and one that expired
AdminToken == generateJWT(AdminUser, 0)
OldToken == generateJWT(AdminUser, 0 - JwtExpiresIn)
AuthTokens == {NoToken, BadToken, GoodToken, AdminToken, OldToken}
UserTokens == {NoToken, GoodToken, AdminToken}

\* session cookies presented: of a session in the store, of none, or no cookie
Cookies == SessionIds \cup {Null}

\* SessionService.getUserFromSession(req) || req.user
sessionOrUser(rq) ==
  IF getUserFromSession(rq.session) # NoUser THEN getUserFromSession(rq.session) ELSE rq.user

\* GET /auth/status: no guard; answers with the identity found
PublicRequest(r, sid, token) ==
  /\ freeSlot(r)
  /\ LET rq == received("GET /auth/status", sid, token, NoBody)
     IN /\ req' = placed(r, [answered(rq) EXCEPT !.identity = sessionOrUser(rq)])
        /\ sessions' = saveAtEnd(rq)
  /\ UNCHANGED <<regVars, selVars, fwdVars, now, usedSids, loggedOut>>

\* faulty variant of requireRole: any identity passes (C15 fails with it)
requireRoleAny(rq, role) ==
  IF sessionOrUser(rq) = NoUser THEN [next |-> FALSE, status |-> 401, error |-> "Unauthorized"]
  ELSE [next |-> TRUE, status |-> 0, error |-> "none"]

\* requireRole(role) on the request object rq
requireRole(rq, role) ==
  IF sessionOrUser(rq) = NoUser THEN [next |-> FALSE, status |-> 401, error |-> "Unauthorized"]
  ELSE IF sessionOrUser(rq).role # role THEN [next |-> FALSE, status |-> 403, error |-> "Forbidden"]
  ELSE [next |-> TRUE, status |-> 0, error |-> "none"]

\* user.permissions?.includes(permission)
hasPermission(user, permission) ==
  /\ "permissions" \in DOMAIN user
  /\ \E i \in 1..Len(user.permissions) : user.permissions[i] = permission

\* requirePermission(permission) on the request object rq
requirePermission(rq, permission) ==
  IF sessionOrUser(rq) = NoUser THEN [next |-> FALSE, status |-> 401, error |-> "Unauthorized"]
  ELSE IF ~hasPermission(sessionOrUser(rq), permission)
       THEN [next |-> FALSE, status |-> 403, error |-> "Forbidden"]
       ELSE [next |-> TRUE, status |-> 0, error |-> "none"]

\* the request object after a second guard (chk) that follows requireAuth
afterGuard(rq, chk) ==
  IF rq.pc # "next" THEN rq
  ELSE IF chk.next THEN rq
  ELSE [rq EXCEPT !.pc = "done", !.status = chk.status, !.error = chk.error]

AdminRoutes == {"GET /proxy/metrics", "POST /proxy/health-check"}

\* GET /proxy/metrics and POST /proxy/health-check: requireAuth, then
\* requireRole('admin'), then the handler; the handler of health-check awaits a sweep
AdminRequest(r, route, sid, token) ==
  /\ freeSlot(r)
  /\ LET rq == received(route, sid, token, NoBody)
         res == requireAuth(rq, now)
         rq2 == afterRequireAuth(rq, res)
         rq3 == afterGuard(rq2, requireRole(rq2, "admin"))
     IN IF rq3.pc = "next" /\ route = "POST /proxy/health-check"
        THEN /\ req' = placed(r, [rq3 EXCEPT !.pc = "checking", !.handler = TRUE, !.sweepPos = 1])
             /\ UNCHANGED sessions
        ELSE /\ req' = placed(r, IF rq3.pc = "next"
                                 THEN [answered(rq3) EXCEPT !.json = getMetricsResponse(requestMetrics)]
                                 ELSE rq3)
             /\ sessions' = IF res.destroy THEN destroyed(sid) ELSE saveAtEnd(rq3)
  /\ UNCHANGED <<regVars, selVars, fwdVars, now, usedSids, loggedOut>>

\* the sweep awaited by the health-check handler resumes after a probe; after
\* the last probe the handler answers
HealthCheckStep(r) ==
  /\ released
  /\ req[r].pc = "checking"
  /\ LET pos == req[r].sweepPos
         c == coreConfigs[pos]
         flags == [isActive EXCEPT ![c] = checkCoreHealth(c)]
     IN /\ isActive' = flags
        /\ IF pos < NumCores
           THEN /\ req' = [req EXCEPT ![r].sweepPos = pos + 1]
                /\ UNCHANGED <<activeConfigs, sessions>>
           ELSE /\ activeConfigs' = filterActive(flags)
                /\ req' = [req EXCEPT ![r] = [@ EXCEPT !.pc = "done", !.status = 200, !.sweepPos = 0]]
                /\ sessions' = saveAtEnd(req[r])
  /\ UNCHANGED <<reachable, sweeps, selVars, fwdVars, now, usedSids, loggedOut>>

Permissions == {"read", "delete"}

\* a request guarded by requireAuth and then requirePermission(permission)
PermissionRequest(r, sid, token, permission) ==
  /\ freeSlot(r)
  /\ LET rq == received("requirePermission", sid, token, [permission |-> permission])
         res == requireAuth(rq, now)
         rq2 == afterRequireAuth(rq, res)
         rq3 == afterGuard(rq2, requirePermission(rq2, permission))
     IN /\ req' = placed(r, IF rq3.pc = "next" THEN answered(rq3) ELSE rq3)
        /\ sessions' = IF res.destroy THEN destroyed(sid) ELSE saveAtEnd(rq3)
  /\ UNCHANGED <<regVars, selVars, fwdVars, now, usedSids, loggedOut>>

\* POST /auth/logout: requireAuth, then the session is destroyed; the
\* callback of session.destroy answers
LogoutRequest(r, sid, token) ==
  /\ freeSlot(r)
  /\ LET rq == received("POST /auth/logout", sid, token, NoBody)
         res == requireAuth(rq, now)
         rq2 == afterRequireAuth(rq, res)
     IN IF rq2.pc = "next"
        THEN /\ req' = placed(r, [rq2 EXCEPT !.pc = "loggingOut", !.handler = TRUE])
             /\ sessions' = IF rq2.session.userId # NoUserId THEN destroyed(sid) ELSE sessions
        ELSE /\ req' = placed(r, rq2)
             /\ sessions' = IF res.destroy THEN destroyed(sid) ELSE saveAtEnd(rq2)
  /\ UNCHANGED <<regVars, selVars, fwdVars, now, usedSids, loggedOut>>

\* the callback of session.destroy in destroySession: the cookie is cleared and 200 is sent
LogoutCallback(r) ==
  /\ released
  /\ req[r].pc = "loggingOut"
  /\ req' = [req EXCEPT ![r] = [@ EXCEPT !.pc = "done", !.status = 200]]
  /\ loggedOut' = IF req[r].session.userId # NoUserId THEN loggedOut \cup {req[r].sid} ELSE loggedOut
  /\ UNCHANGED <<regVars, selVars, fwdVars, sessions, now, usedSids>>

\* request bodies of POST /auth/login
LoginBodies ==
  {[username |-> "admin", password |-> "admin123"],
   [username |-> "user", password |-> "user123"],
   [username |-> "admin", password |-> "wrong"],
   [username |-> "nobody", password |-> "admin123"],
   [username |-> "admin"]}

\* loginSchema.validate: both fields are required, the username has 3 to 30
\* characters, the password at least 3
loginSchemaOk(body) ==
  /\ DOMAIN body = {"username", "password"}
  /\ Len(body.username) >= 3 /\ Len(body.username) <= 30
  /\ Len(body.password) >= 3

\* faulty variant of authenticate: the password of a known user is not
\* compared (C18 fails with it)
authenticateAnyPassword(username, password) ==
  IF ~\E i \in 1..Len(users) : users[i].username = username THEN NoUser
  ELSE users[CHOOSE i \in 1..Len(users) : users[i].username = username]

\* SessionService.authenticate: the user, or null
authenticate(username, password) ==
  IF ~\E i \in 1..Len(users) : users[i].username = username THEN NoUser
  ELSE IF username = "admin" /\ password = "admin123" THEN AdminUser
  ELSE IF username = "user" /\ password = "user123" THEN PlainUser
  ELSE NoUser

\* SessionService.createSession: the data written into req.session
createSession(session, user, t) ==
  [session EXCEPT !.userId = user.id, !.userRole = user.role, !.lastActivity = t]

\* req.sessionID: the id of the cookie when the store holds a session for it,
\* else an id the session middleware generates
sessionID(sid) ==
  IF loadSession(sid) # EmptySession THEN sid
  ELSE IF SessionIds \ usedSids = {} THEN Null
  ELSE CHOOSE f \in SessionIds \ usedSids : TRUE

\* POST /auth/login
LoginRequest(r, sid, body) ==
  /\ freeSlot(r)
  /\ LET rq == received("POST /auth/login", sid, NoToken, body)
         user == IF loginSchemaOk(body) THEN authenticate(body.username, body.password) ELSE NoUser
     IN IF ~loginSchemaOk(body)
        THEN /\ req' = placed(r, [rq EXCEPT !.pc = "done", !.handler = TRUE, !.status = 400, !.error = "Bad Request"])
             /\ sessions' = saveAtEnd(rq)
             /\ UNCHANGED usedSids
        ELSE IF user = NoUser
        THEN /\ req' = placed(r, [rq EXCEPT !.pc = "done", !.handler = TRUE, !.status = 401, !.error = "Unauthorized"])
             /\ sessions' = saveAtEnd(rq)
             /\ UNCHANGED usedSids
        ELSE /\ sessionID(sid) # Null
             /\ LET rq2 == [rq EXCEPT !.sid = sessionID(sid),
                                      !.session = createSession(rq.session, user, now),
                                      !.issued = generateJWT(user, now),
                                      !.identity = user]
                IN /\ req' = placed(r, answered(rq2))
                   /\ sessions' = saveAtEnd(rq2)
                   /\ usedSids' = usedSids \cup {rq2.sid}
  /\ UNCHANGED <<regVars, selVars, fwdVars, now, loggedOut>>

\* request bodies of POST /auth/refresh
RefreshBodies == {[refreshToken |-> t] : t \in AuthTokens \ {NoToken}} \cup {NoBody}

\* faulty variant of refresh: the token is decoded without being verified
\* (C20 fails with it)
refreshUnverified(body, t) ==
  IF "refreshToken" \notin DOMAIN body THEN [status |-> 400, error |-> "Bad Request", issued |-> NoToken]
  ELSE LET decoded == body.refreshToken.payload
       IN [status |-> 200, error |-> "none",
           issued |-> generateJWT([id |-> decoded.userId, username |-> decoded.username,
                                   role |-> decoded.role, permissions |-> <<>>], t)]

\* the handler of POST /auth/refresh: status and the token issued
refresh(body, t) ==
  IF "refreshToken" \notin DOMAIN body THEN [status |-> 400, error |-> "Bad Request", issued |-> NoToken]
  ELSE IF verifyJWT(body.refreshToken, t) = NoUser
       THEN [status |-> 401, error |-> "Unauthorized", issued |-> NoToken]
       ELSE LET decoded == verifyJWT(body.refreshToken, t)
            IN [status |-> 200, error |-> "none",
                issued |-> generateJWT([id |-> decoded.userId, username |-> decoded.username,
                                        role |-> decoded.role, permissions |-> <<>>], t)]

\* POST /auth/refresh
RefreshRequest(r, sid, body) ==
  /\ freeSlot(r)
  /\ LET rq == received("POST /auth/refresh", sid, NoToken, body)
         out == refresh(body, now)
     IN /\ req' = placed(r, [rq EXCEPT !.pc = "done", !.handler = TRUE, !.status = out.status,
                                       !.error = out.error, !.issued = out.issued])
        /\ sessions' = saveAtEnd(rq)
  /\ UNCHANGED <<regVars, selVars, fwdVars, now, usedSids, loggedOut>>

\* time passes
MaxTicks == 3

TickSteps == {1, SessionTimeout - 1}

ticksTaken == (now \div (SessionTimeout - 1)) + (now % (SessionTimeout - 1))

\* between requests
Tick(d) ==
  /\ ticksTaken < MaxTicks
  /\ \A r \in AuthReqIds : req[r].pc = "new"
  /\ now' = now + d
  /\ UNCHANGED <<regVars, selVars, req, fwdVars, sessions, usedSids, loggedOut>>

\* a millisecond passes while a request is pending (requests are answered within seconds)
Elapse ==
  /\ ticksTaken < MaxTicks
  /\ released
  /\ \E r \in AuthReqIds : pending(req[r])
  /\ now' = now + 1
  /\ UNCHANGED <<regVars, selVars, req, fwdVars, sessions, usedSids, loggedOut>>

\* a millisecond passes while a backend works on a forwarded request
BackendDelay ==
  /\ ticksTaken < MaxTicks
  /\ \E r \in SlotIds : req[r].pc = "proxying"
  /\ now' = now + 1
  /\ UNCHANGED <<regVars, selVars, req, fwdVars, sessions, usedSids, loggedOut>>

-----------------------------------------------------------------------------
(* Specifications *)

\* The start-up sweep is over and the server listens: the flags and
\* activeConfigs agree, and the backends' reachability may have changed since.
InitRegistry ==
  /\ isActive \in [CoreNames -> BOOLEAN]
  /\ activeConfigs = filterActive(isActive)
  /\ reachable \in [CoreNames -> BOOLEAN]
  /\ sweeps = [s \in SweepIds |-> 0]

\* The registry as configured (every backend active), as the start-up sweep
\* leaves it when every backend answered; backends may have gone down since.
InitConfigured ==
  /\ isActive = [c \in CoreNames |-> TRUE]
  /\ activeConfigs = filterActive(isActive)
  /\ reachable \in [CoreNames -> BOOLEAN]
  /\ sweeps = [s \in SweepIds |-> 0]

InitSelectors ==
  /\ currentCoreIndex = 0
  /\ ret = NoRet
  /\ affinity = NoAffinity
  /\ rrHist = <<>>

InitRequests ==
  /\ req = [r \in SlotIds |-> NewReq]
  /\ requestMetrics = <<>>
  /\ outcomeLog = <<>>
  /\ uuids = 0

\* two logins happened at time t0: the admin's on session s1, the plain user's on s2
sessionsSince(t1, t2) ==
  [sid \in SessionIds |->
     IF sid = "s1"
     THEN [userId |-> AdminUser.id, userRole |-> AdminUser.role, lastActivity |-> t1]
     ELSE IF sid = "s2"
          THEN [userId |-> PlainUser.id, userRole |-> PlainUser.role, lastActivity |-> t2]
          ELSE EmptySession]

\* one login happened at time t1: the admin's on session s1; s2 was never issued
sessionSince(t1) == [sessionsSince(t1, t1) EXCEPT !["s2"] = EmptySession]

InitSessions(t1, t2) ==
  /\ sessions = sessionsSince(t1, t2)
  /\ usedSids = SessionIds
  /\ loggedOut = {}

\* The pipeline: the admin's session is still within the timeout, the plain
\* user's session is past it.
Init ==
  /\ InitConfigured
  /\ InitSelectors
  /\ InitRequests
  /\ now = 2 * SessionTimeout
  /\ InitSessions(now - (SessionTimeout - 1), now - (SessionTimeout + 1))

Next ==
  \/ \E s \in SweepIds : StartSweep(s)
  \/ \E s \in SweepIds : SweepStep(s)
  \/ \E r \in ReqIds, url \in Urls, sid \in SessionIds \cup {Null}, token \in Tokens :
       Arrive(r, url, sid, token)
  \/ \E r \in ReqIds, sweepFirst \in BOOLEAN : Handle(r, sweepFirst)
  \/ \E r \in ReqIds : RouterSweepStep(r)
  \/ \E r \in ReqIds : OnProxyReq(r)
  \/ \E r \in ReqIds, statusCode \in BackendStatuses : OnProxyRes(r, statusCode)
  \/ \E r \in ReqIds : OnError(r)

Spec == Init /\ [][Next]_vars

\* Direct calls of the selectors while sweeps run
InitSelect ==
  /\ InitRegistry
  /\ InitSelectors
  /\ InitRequests
  /\ now = 0
  /\ InitSessions(0, 0)

NextSelect ==
  \/ \E s \in SweepIds : StartSweep(s)
  \/ \E s \in SweepIds : SweepStep(s)
  \/ CallSelectCore
  \/ \E u \in UserIds : CallSelectCoreByUser(u)
  \/ \E p \in Paths : CallSelectCoreByPath(p)

SpecSelect == InitSelect /\ [][NextSelect]_vars

\* selectCoreByUser on ids of every kind of hash, while sweeps change the
\* size of activeConfigs
NextHash ==
  \/ \E s \in SweepIds : StartSweep(s)
  \/ \E s \in SweepIds : SweepStep(s)
  \/ \E userId \in HashIds : CallSelectCoreByUserId(userId)

SpecHash == InitSelect /\ [][NextHash]_vars

\* Anonymous /api requests handled concurrently, while timer sweeps run
ConcurrentUrls == {UrlApiUsers, UrlApiV1}

InitConcurrent ==
  /\ InitConfigured
  /\ InitSelectors
  /\ InitRequests
  /\ now = 0
  /\ InitSessions(0, 0)

NextConcurrent ==
  \/ \E s \in SweepIds : StartSweep(s)
  \/ \E s \in SweepIds : SweepStep(s)
  \/ \E r \in SlotIds, url \in ConcurrentUrls : Arrive(r, url, Null, NoToken)
  \/ \E r \in SlotIds, sweepFirst \in BOOLEAN : Handle(r, sweepFirst)
  \/ \E r \in SlotIds : RouterSweepStep(r)
  \/ \E r \in SlotIds : OnProxyReq(r)
  \/ \E r \in SlotIds : OnProxyRes(r, 200)
  \/ \E r \in SlotIds : OnError(r)

SpecConcurrent == InitConcurrent /\ [][NextConcurrent]_vars

\* The three origins of a sweep together: the timer, the request in
\* intelligentRouter that draws Math.random() < 0.1, and the administrator's
\* POST /proxy/health-check. Reachability is what it is at the start.
InitMonitor ==
  /\ InitConfigured
  /\ InitSelectors
  /\ InitRequests
  /\ now = 0
  /\ sessions = sessionSince(0)
  /\ usedSids = {"s1"}
  /\ loggedOut = {}

NextMonitor ==
  \/ \E s \in SweepIds : StartSweep(s)
  \/ \E s \in SweepIds : SweepStep(s)
  \/ \E r \in ReqIds : uuids < MaxReq /\ Arrive(r, UrlApiUsers, Null, NoToken)
  \/ \E r \in ReqIds, sweepFirst \in BOOLEAN : Handle(r, sweepFirst)
  \/ \E r \in ReqIds : RouterSweepStep(r)
  \/ \E r \in ReqIds : OnProxyReq(r)
  \/ \E r \in ReqIds : OnProxyRes(r, 200)
  \/ \E r \in ReqIds : OnError(r)
  \/ \E r \in AuthReqIds : AdminRequest(r, "POST /proxy/health-check", Null, AdminToken)
  \/ \E r \in AuthReqIds : HealthCheckStep(r)
  \/ \E r \in SlotIds : Release(r)

SpecMonitor == InitMonitor /\ [][NextMonitor]_vars

\* Every way a request is answered: /api requests through optionalAuth, the
\* router and the forwarding callbacks; /proxy requests through requireAuth
\* and requireRole. The plain user's session s2 is past the timeout.
ResponseTokens == {NoToken, GoodToken}

NextResponses ==
  \/ \E r \in ReqIds, sid \in {Null, "s1"} : uuids < MaxReq /\ Arrive(r, UrlApiUsers, sid, NoToken)
  \/ \E r \in ReqIds, sweepFirst \in BOOLEAN : Handle(r, sweepFirst)
  \/ \E r \in ReqIds : RouterSweepStep(r)
  \/ \E r \in ReqIds : OnProxyReq(r)
  \/ \E r \in ReqIds, statusCode \in BackendStatuses : OnProxyRes(r, statusCode)
  \/ \E r \in ReqIds : OnError(r)
  \/ \E r \in ReqIds : OnErrorLate(r)
  \/ \E r \in AuthReqIds, sid \in Cookies, token \in ResponseTokens : ProtectedRequest(r, sid, token)
  \/ \E r \in AuthReqIds : DestroyCallback(r)
  \/ \E r \in AuthReqIds, route \in AdminRoutes, sid \in Cookies, token \in ResponseTokens :
       AdminRequest(r, route, sid, token)
  \/ \E r \in AuthReqIds : HealthCheckStep(r)
  \/ \E r \in SlotIds : Release(r)

SpecResponses == Init /\ [][NextResponses]_vars

\* Sweeps with the course of every probe spelled out
NextProbe ==
  \/ \E s \in SweepIds : StartSweep(s)
  \/ \E s \in SweepIds, outcome \in ProbeOutcomes : ProbedSweepStep(s, outcome)

SpecProbe == InitSelect /\ [][NextProbe]_vars

\* a backend starts or stops answering its health check
Flip(c) ==
  /\ reachable' = [reachable EXCEPT ![c] = ~reachable[c]]
  /\ UNCHANGED <<isActive, activeConfigs, sweeps, selVars, req, fwdVars, authVars>>

\* ... the same while backends come and go
NextFlip ==
  \/ NextMonitor
  \/ \E c \in CoreNames : Flip(c)

SpecFlip == InitMonitor /\ [][NextFlip]_vars

\* Termination: sweeps and /api requests with the course of every probe and
\* the end of every forward spelled out. The event loop runs every callback
\* that is ready, and the timers of lines 16 and 87-88 are armed whenever a
\* probe or a forward is under way: each resumption that is continuously
\* possible happens. Nothing obliges a timer sweep to start, a client to send
\* a request, or a backend to answer or to refuse.
NextLive ==
  \/ \E s \in SweepIds : StartSweep(s)
  \/ \E s \in SweepIds, outcome \in ProbeOutcomes : ProbedSweepStep(s, outcome)
  \/ \E r \in ReqIds, sid \in {Null, "s1"} : Arrive(r, UrlApiUsers, sid, NoToken)
  \/ \E r \in ReqIds, sweepFirst \in BOOLEAN : Handle(r, sweepFirst)
  \/ \E r \in ReqIds : RouterSweepStep(r)
  \/ \E r \in ReqIds : OnProxyReq(r)
  \/ \E r \in ReqIds, statusCode \in BackendStatuses : BackendAnswers(r, statusCode)
  \/ \E r \in ReqIds : ConnectionFails(r)
  \/ \E r \in ReqIds : ProxyTimer(r)

FairLive ==
  /\ \A s \in SweepIds : WF_vars(\E outcome \in ProbeOutcomes : ProbedSweepStep(s, outcome))
  /\ \A r \in ReqIds : WF_vars(\E sweepFirst \in BOOLEAN : Handle(r, sweepFirst))
  /\ \A r \in ReqIds : WF_vars(RouterSweepStep(r))
  /\ \A r \in ReqIds : WF_vars(OnProxyReq(r))
  /\ \A r \in ReqIds : WF_vars(ProxyTimer(r))

SpecLive == InitMonitor /\ [][NextLive]_vars /\ FairLive

\* Forwarded requests on the clock: the backend answers after some
\* milliseconds or at once
NextClock ==
  \/ \E r \in SlotIds, url \in ConcurrentUrls : Arrive(r, url, Null, NoToken)
  \/ \E r \in SlotIds : Handle(r, FALSE)
  \/ \E r \in SlotIds : OnProxyReq(r)
  \/ BackendDelay
  \/ \E r \in SlotIds, statusCode \in BackendStatuses : OnProxyRes(r, statusCode)

SpecClock == InitConcurrent /\ [][NextClock]_vars

\* The metrics store alone
InitMetrics ==
  /\ InitConfigured
  /\ reachable = [c \in CoreNames |-> TRUE]
  /\ InitSelectors
  /\ InitRequests
  /\ now = 0
  /\ InitSessions(0, 0)

NextMetrics == ForwardedResponse

SpecMetrics == InitMetrics /\ [][NextMetrics]_vars

\* Sessions and guarded routes as time passes
InitAuth ==
  /\ InitConfigured
  /\ reachable = [c \in CoreNames |-> TRUE]
  /\ InitSelectors
  /\ InitRequests
  /\ now = 0
  /\ sessions = sessionSince(0)
  /\ usedSids = {"s1"}
  /\ loggedOut = {}

\* requests to the /auth and /proxy routes, one at a time
NextAuth ==
  \/ \E d \in TickSteps : Tick(d)
  \/ \E sid \in Cookies, token \in AuthTokens : ProtectedRequest(FirstSlot, sid, token)
  \/ DestroyCallback(FirstSlot)
  \/ \E sid \in Cookies, token \in UserTokens : PublicRequest(FirstSlot, sid, token)
  \/ \E route \in AdminRoutes, sid \in Cookies, token \in UserTokens :
       AdminRequest(FirstSlot, route, sid, token)
  \/ HealthCheckStep(FirstSlot)
  \/ \E sid \in Cookies, token \in UserTokens, permission \in Permissions :
       PermissionRequest(FirstSlot, sid, token, permission)
  \/ \E sid \in Cookies, token \in UserTokens : LogoutRequest(FirstSlot, sid, token)
  \/ LogoutCallback(FirstSlot)
  \/ \E sid \in Cookies, body \in LoginBodies : LoginRequest(FirstSlot, sid, body)
  \/ \E sid \in Cookies, body \in RefreshBodies : RefreshRequest(FirstSlot, sid, body)
  \/ Release(FirstSlot)

SpecAuth == InitAuth /\ [][NextAuth]_vars

\* The administrator reads the metrics while outcomes are recorded, one
\* request at a time. The first MaxVaried backend responses carry any
\* status, the later ones 200.
MaxVaried == 3

statusesAt(n) == IF n < MaxVaried THEN BackendStatuses ELSE {200}

NextSummary ==
  \/ \E statusCode \in statusesAt(uuids) :
       (\A r \in SlotIds : req[r].pc = "new") /\ Forwarded(statusCode)
  \/ AdminRequest(FirstSlot, "GET /proxy/metrics", "s1", NoToken)
  \/ Release(FirstSlot)

SpecSummary == InitAuth /\ [][NextSummary]_vars

\* Requests of the admin's session s1 that overlap: a health-check, whose
\* handler awaits a sweep, with a status request or a logout
NextRace ==
  \/ \E d \in TickSteps : Tick(d)
  \/ Elapse
  \/ \E r \in AuthReqIds : ProtectedRequest(r, "s1", NoToken)
  \/ \E r \in AuthReqIds : DestroyCallback(r)
  \/ \E r \in AuthReqIds : AdminRequest(r, "POST /proxy/health-check", "s1", NoToken)
  \/ \E r \in AuthReqIds : HealthCheckStep(r)
  \/ \E r \in AuthReqIds : LogoutRequest(r, "s1", NoToken)
  \/ \E r \in AuthReqIds : LogoutCallback(r)
  \/ \E r \in AuthReqIds : Release(r)

SpecRace == InitAuth /\ [][NextRace]_vars

-----------------------------------------------------------------------------
(* Claims about selection *)

CallAny ==
  \/ CallSelectCore
  \/ \E u \in UserIds : CallSelectCoreByUser(u)
  \/ \E p \in Paths : CallSelectCoreByPath(p)

\* C1: whenever selectCore, selectCoreByUser or selectCoreByPath returns a
\* backend, also while sweeps are running, the isActive flag of that backend
\* is true at that moment.
C1_ReturnedIsFlaggedActive ==
  [][CallAny => (ret'.core # Null => isActive'[ret'.core])]_vars

\* the routing step of request r: intelligentRouter selects and answers 503 or dispatches
Routed(r) == req[r].pc \in {"arrived", "sweeping"} /\ req'[r].pc \in {"dispatched", "done"}

\* the backend the /api/vK prefix of a client URL names, or Null
prefixTarget(url) ==
  IF startsWith(url, PrefixV1) THEN "core-api-1"
  ELSE IF startsWith(url, PrefixV2) THEN "core-api-2"
  ELSE IF startsWith(url, PrefixV3) THEN "core-api-3"
  ELSE Null

\* C2: a client request for /api/vK/... (K in 1..3) routed while core-api-K is
\* flagged healthy is dispatched to core-api-K, whatever identity it carries.
C2_PrefixRoutesToNamedCore ==
  [][\A r \in ReqIds :
       (Routed(r) /\ prefixTarget(req[r].url) # Null /\ isActive'[prefixTarget(req[r].url)])
         => (req'[r].pc = "dispatched" /\ req'[r].core = prefixTarget(req[r].url))]_vars

\* the request carries no credential at all
Anonymous(rq) == rq.sid = Null /\ rq.token = NoToken

\* C3: a request for /api/vK/x without identity, routed while core-api-K is
\* flagged unhealthy and some other backend is flagged healthy, is dispatched
\* by round-robin (the counter advances) to a healthy backend other than core-api-K.
C3_UnhealthyPrefixFallsToRoundRobin ==
  [][\A r \in ReqIds :
       (/\ Routed(r)
        /\ Anonymous(req[r])
        /\ prefixTarget(req[r].url) # Null
        /\ ~isActive'[prefixTarget(req[r].url)]
        /\ \E c \in CoreNames : isActive'[c])
         => (/\ req'[r].pc = "dispatched"
             /\ req'[r].core # prefixTarget(req[r].url)
             /\ isActive'[req'[r].core]
             /\ currentCoreIndex' = currentCoreIndex + 1)]_vars

\* C4: a request routed while activeConfigs is empty is answered 503, is not
\* handed to any proxy middleware, and the metrics store does not change; a
\* request answered 503 has no backend, no request id and no outcome.
C4_EmptySetGives503 ==
  /\ [][\A r \in ReqIds :
          (Routed(r) /\ activeConfigs' = <<>>)
            => (/\ req'[r].pc = "done"
                /\ req'[r].status = 503
                /\ req'[r].core = Null
                /\ requestMetrics' = requestMetrics
                /\ outcomeLog' = outcomeLog
                /\ uuids' = uuids)]_vars
  /\ [](\A r \in ReqIds :
          req[r].status = 503
            => (/\ req[r].core = Null
                /\ req[r].requestId = 0
                /\ \A i \in 1..Len(outcomeLog) : outcomeLog[i].requestId # req[r].requestId))

C4_Witness ==
  \E r \in ReqIds : req[r].pc = "done" /\ req[r].status = 503 /\ activeConfigs = <<>>

\* C5: selectCoreByUser returns, for a user id, the backend it returned for
\* that id before, as long as activeConfigs kept its value, whatever other
\* selections were made in between.
C5_UserAffinityDeterministic ==
  [][\A u \in UserIds :
       (CallSelectCoreByUser(u) /\ affinity[u] # "unset") => ret'.core = affinity[u]]_vars

C5_Witness ==
  /\ ret.op = "selectCoreByUser"
  /\ ret.core # Null
  /\ ret.again
  /\ currentCoreIndex >= 2
  /\ \E u \in UserIds : affinity[u] \notin {"unset", ret.core}

\* the identity id of req.user: `id` of a session user, `userId` of a token payload
identityId(user) == IF "id" \in DOMAIN user THEN user.id ELSE user.userId

\* C6: a request to which no path prefix applies is routed by the hash of its
\* identity id exactly when optionalAuth resolved an identity (req.user), and
\* by round-robin otherwise.
C6_AffinityIffIdentity ==
  [][\A r \in ReqIds :
       (Routed(r) /\ prefixTarget(req[r].url) = Null /\ activeConfigs' # <<>>)
         => IF req'[r].user # NoUser
            THEN /\ req'[r].core = selectCoreByUser(activeConfigs', identityId(req'[r].user))
                 /\ currentCoreIndex' = currentCoreIndex
            ELSE /\ req'[r].core = selectCore(activeConfigs', currentCoreIndex).core
                 /\ currentCoreIndex' = currentCoreIndex + 1]_vars

\* position of backend c in the sequence active, 0 when absent
indexOf(active, c) ==
  IF \E i \in 1..Len(active) : active[i] = c
  THEN CHOOSE i \in 1..Len(active) : active[i] = c
  ELSE 0

\* number of entries of seq equal to c
occurrences(seq, c) == Cardinality({i \in 1..Len(seq) : seq[i] = c})

\* C7: while activeConfigs keeps its value (n >= 1 backends), every round-robin
\* selection returns the cyclic successor, in activeConfigs, of the previous
\* one, and any 3n consecutive selections return each backend exactly 3 times.
C7_RoundRobinCycles ==
  LET n == Len(activeConfigs)
      k == Len(rrHist)
  IN /\ \A i \in 1..k : indexOf(activeConfigs, rrHist[i]) # 0
     /\ \A i \in 1..(k - 1) :
          indexOf(activeConfigs, rrHist[i + 1]) = (indexOf(activeConfigs, rrHist[i]) % n) + 1
     /\ (n >= 1 /\ k >= 3 * n) =>
          \A c \in CoreNames :
            occurrences(SubSeq(rrHist, k - 3 * n + 1, k), c) = IF indexOf(activeConfigs, c) # 0 THEN 3 ELSE 0

C7_Witness ==
  /\ Len(activeConfigs) = 3
  /\ Len(rrHist) = 9
  /\ rrHist[1] = "core-api-2"

-----------------------------------------------------------------------------
(* Claims about the metrics store *)

\* the last n entries of seq (all of it when shorter)
lastN(seq, n) == IF Len(seq) <= n THEN seq ELSE SubSeq(seq, Len(seq) - n + 1, Len(seq))

\* C8: after k recorded outcomes the metrics store read by getMetrics holds
\* exactly the most recent min(k, 1000) outcomes in arrival order, and never
\* more than 1000; after 1001 records it holds 1000 and the first is gone.
C8_StoreKeepsLast1000 ==
  /\ requestMetrics = lastN(outcomeLog, MetricsCapacity)
  /\ Len(requestMetrics) <= MetricsCapacity
  /\ Len(outcomeLog) = MetricsCapacity + 1
       => (/\ Len(requestMetrics) = MetricsCapacity
           /\ \A i \in 1..Len(requestMetrics) : requestMetrics[i] # outcomeLog[1])

C8_Witness ==
  /\ Len(outcomeLog) = MetricsCapacity + 1
  /\ Len(requestMetrics) = MetricsCapacity
  /\ requestMetrics[1] = outcomeLog[2]
  /\ requestMetrics[MetricsCapacity] = outcomeLog[MetricsCapacity + 1]

\* C9: a request whose forwarding failed (answered 502) has exactly one
\* outcome in the metrics store, naming its backend, with status 0 or 502,
\* present by the time the 502 is sent.
C9_FailureRecorded ==
  \A r \in ReqIds :
    req[r].status = 502
      => Cardinality({i \in 1..Len(requestMetrics) :
                        /\ requestMetrics[i].requestId = req[r].requestId
                        /\ requestMetrics[i].targetCore = req[r].core
                        /\ requestMetrics[i].statusCode \in {0, 502}}) = 1

-----------------------------------------------------------------------------
(* Claims about sessions *)

\* the routes whose first guard is requireAuth
RequireAuthRoutes ==
  {"GET /proxy/status", "GET /proxy/metrics", "POST /proxy/health-check", "POST /auth/logout",
   "requirePermission"}

\* the step in which request r, presenting session sid, is received and
\* handled by requireAuth
Guarded(r, sid) ==
  /\ ~pending(req[r])
  /\ req'[r] # req[r]
  /\ req'[r].route \in RequireAuthRoutes
  /\ req'[r].sid = sid

\* C10: a request handled by requireAuth whose session has been idle for the
\* timeout or longer never reaches the route handler; its session is destroyed
\* first, and then it is answered 401 'Session Expired', bearer token or not.
C10_ExpiredSessionRejected ==
  [][\A r \in AuthReqIds :
       /\ \A sid \in SessionIds :
            (/\ Guarded(r, sid)
             /\ sessions[sid].userId # NoUserId
             /\ now - sessions[sid].lastActivity >= SessionTimeout)
              => (/\ req'[r].pc = "destroying"
                  /\ req'[r].status = 0
                  /\ ~req'[r].handler
                  /\ sessions'[sid] = EmptySession)
       /\ (req[r].pc = "destroying" /\ req'[r] # req[r])
            => (/\ req'[r].pc = "done"
                /\ req'[r].status = 401
                /\ req'[r].error = "Session Expired"
                /\ ~req'[r].handler)]_vars

C10_Witness ==
  \E r \in AuthReqIds :
    /\ req[r].pc = "done"
    /\ req[r].status = 401
    /\ req[r].error = "Session Expired"
    /\ bearerUser(req[r].token, now) # NoUser
    /\ now - req[r].session.lastActivity = SessionTimeout + 1
    /\ sessions[req[r].sid] = EmptySession

-----------------------------------------------------------------------------
(* Claims about authentication *)

\* the step in which request r is received and runs up to its response or its first await
Received(r) == req[r].pc = "new" /\ req'[r].pc # "new"

\* the session has been idle for the timeout or longer
expired(sessionData, t) ==
  sessionData.userId # NoUserId /\ sessionData.lastActivity # NoTime
    /\ t - sessionData.lastActivity >= SessionTimeout

\* C11: a request presenting a session idle for less than the timeout resolves
\* to an identity, its session's lastActivity becomes the time of the request
\* (in the store too, once answered), and the lastActivity of a stored session
\* never decreases.
C11_SessionAuthRefreshes ==
  [][/\ \A r \in AuthReqIds :
          (Received(r) /\ req'[r].route \in RequireAuthRoutes \cup {"GET /auth/status"}
             /\ isSessionValid(loadSession(req'[r].sid), now))
            => (/\ req'[r].user # NoUser
                /\ req'[r].session.lastActivity = now
                /\ req'[r].pc = "done" => sessions'[req'[r].sid].lastActivity = now)
     /\ \A sid \in SessionIds :
          (sessions[sid].lastActivity # NoTime /\ sessions'[sid].lastActivity # NoTime)
            => sessions'[sid].lastActivity >= sessions[sid].lastActivity]_vars

\* C12: a session id once expired is never valid again, and every successful
\* login gets a session id that was never used before.
C12_NoWayBackFreshIds ==
  [][/\ \A sid \in SessionIds :
          expired(sessions[sid], now) => ~isSessionValid(sessions'[sid], now')
     /\ \A r \in AuthReqIds :
          (Received(r) /\ req'[r].route = "POST /auth/login" /\ req'[r].status = 200)
            => req'[r].sid \notin usedSids]_vars

\* C13: a request that presents an expired session, on any route, leaves no
\* session under that id.
C13_LazyExpiry ==
  [][\A r \in AuthReqIds :
       (Received(r) /\ expired(loadSession(req'[r].sid), now))
         => sessions'[req'[r].sid] = EmptySession]_vars

\* the bearer token carries the server's signature and has not reached its expiry
verifies(token, t) == token # NoToken /\ token.signed /\ t < token.exp

\* the session carries a user and has been idle for less than the timeout
fresh(sessionData, t) ==
  sessionData.userId # NoUserId /\ sessionData.lastActivity # NoTime
    /\ t - sessionData.lastActivity < SessionTimeout

\* requireAuth let the answered or pending request rq through
passedRequireAuth(rq) == rq.handler \/ rq.status = 403

\* C14: requireAuth lets a request through only if it carries a session idle
\* for less than the timeout or a bearer token that verifies; every other
\* request is answered 401 (at once or after session.destroy) and its handler
\* never runs.
C14_RequireAuthSound ==
  [][\A r \in AuthReqIds :
       /\ (Received(r) /\ req'[r].route \in RequireAuthRoutes)
            => LET ok == \/ fresh(loadSession(req'[r].sid), now)
                         \/ verifies(req'[r].token, now)
               IN /\ passedRequireAuth(req'[r]) => ok
                  /\ ~ok => (/\ ~req'[r].handler
                             /\ req'[r].pc \in {"done", "destroying"}
                             /\ req'[r].pc = "done" => req'[r].status = 401)
       /\ (req[r].pc = "destroying" /\ req'[r].pc # "destroying")
            => (req'[r].status = 401 /\ ~req'[r].handler)]_vars

C14_Witness ==
  \E r \in AuthReqIds :
    /\ req[r].pc = "done"
    /\ req[r].route = "GET /proxy/status"
    /\ req[r].token = OldToken
    /\ req[r].sid = Null
    /\ req[r].status = 401
    /\ ~req[r].handler

\* the role requireAuth's resolution gives a request: of the session's user
\* when the session is valid, of the token's payload when there is no session
\* and the token verifies, else Null
resolvedRole(sessionData, token, t) ==
  IF isSessionValid(sessionData, t) THEN getUserFromSession(sessionData).role
  ELSE IF sessionData.userId = NoUserId /\ bearerUser(token, t) # NoUser THEN bearerUser(token, t).role
  ELSE Null

\* C15: the handlers of GET /proxy/metrics and POST /proxy/health-check run
\* only for an identity of role 'admin'; an identity of another role gets 403,
\* a request without identity 401, and for both no sweep starts.
C15_AdminOnly ==
  [][\A r \in AuthReqIds :
       (Received(r) /\ req'[r].route \in AdminRoutes)
         => LET role == resolvedRole(loadSession(req'[r].sid), req'[r].token, now)
            IN /\ req'[r].handler <=> role = "admin"
               /\ req'[r].pc = "checking" <=> (role = "admin" /\ req'[r].route = "POST /proxy/health-check")
               /\ role \notin {"admin", Null} => (req'[r].pc = "done" /\ req'[r].status = 403)
               /\ role = Null => (/\ req'[r].pc \in {"done", "destroying"}
                                  /\ req'[r].pc = "done" => req'[r].status = 401)
               /\ role # "admin" => UNCHANGED regVars]_vars

C15_Witness ==
  \E r \in AuthReqIds :
    /\ req[r].pc = "done"
    /\ req[r].route = "POST /proxy/health-check"
    /\ req[r].status = 403
    /\ req[r].token = GoodToken
    /\ ~req[r].handler

\* the user with the given id
userById(id) == users[CHOOSE i \in 1..Len(users) : users[i].id = id]

\* C16: requireAuth followed by requirePermission(p) passes exactly when the
\* user has permission p, whether the request is authenticated by the session
\* or by the token of that user.
C16_SameIdentityShape ==
  [][\A r \in AuthReqIds :
       (Received(r) /\ req'[r].route = "requirePermission" /\ passedRequireAuth(req'[r]))
         => (req'[r].status = 200
               <=> hasPermission(userById(identityId(sessionOrUser(req'[r]))), req'[r].body.permission))]_vars

\* C17: requireAuth admits a request exactly when optionalAuth resolves an
\* identity for it, and then with the same identity.
C17_SameResolution ==
  [][\A r \in AuthReqIds :
       (Received(r) /\ req'[r].route \in RequireAuthRoutes)
         => LET oa == optionalAuth(loadSession(req'[r].sid), req'[r].token, now)
            IN /\ passedRequireAuth(req'[r]) <=> oa.user # NoUser
               /\ passedRequireAuth(req'[r]) => req'[r].user = oa.user]_vars

\* the login request r of this step, with what the handler decides from the body
LoginStep(r) == Received(r) /\ req'[r].route = "POST /auth/login"

\* C18 as stated: a login answered 401 or 400 leaves the session store unchanged.
C18_FailedLoginStoreUnchanged ==
  [][\A r \in AuthReqIds :
       (LoginStep(r) /\ req'[r].status \in {400, 401}) => sessions' = sessions]_vars

\* C18, amended: a login with admin/admin123 or user/user123 is answered 200
\* with a token and the identity of that user and stores a session of that
\* user; a login with other credentials is answered 401 and a malformed one
\* 400, no token is issued, no session is created and no session changes its
\* user; the only change of the store is the lastActivity refresh that
\* optionalAuth makes to a valid session presented with the request.
C18_Login ==
  [][\A r \in AuthReqIds :
       LoginStep(r) =>
         LET body == req'[r].body
             good == body \in {[username |-> "admin", password |-> "admin123"],
                               [username |-> "user", password |-> "user123"]}
             presented == loadSession(req'[r].sid)
         IN IF good
            THEN /\ req'[r].status = 200
                 /\ req'[r].identity.username = body.username
                 /\ req'[r].identity.role = body.username
                 /\ verifyJWT(req'[r].issued, now).userId = req'[r].identity.id
                 /\ verifyJWT(req'[r].issued, now).role = req'[r].identity.role
                 /\ sessions'[req'[r].sid] =
                      [userId |-> req'[r].identity.id, userRole |-> req'[r].identity.role,
                       lastActivity |-> now]
            ELSE /\ req'[r].status = IF DOMAIN body = {"username", "password"} THEN 401 ELSE 400
                 /\ req'[r].issued = NoToken
                 /\ usedSids' = usedSids
                 /\ \A sid \in SessionIds :
                      \/ sessions'[sid] = sessions[sid]
                      \/ /\ sid = req'[r].sid
                         /\ isSessionValid(presented, now)
                         /\ sessions'[sid] = [presented EXCEPT !.lastActivity = now]]_vars

C18_Witness ==
  \E r \in AuthReqIds :
    /\ req[r].pc = "done"
    /\ req[r].route = "POST /auth/login"
    /\ req[r].status = 401
    /\ req[r].body.password = "wrong"
    /\ req[r].sid = "s1"
    /\ now > 0
    /\ sessions["s1"].lastActivity = now

\* C19: after a logout destroyed the session of a session id, a request that
\* presents only that id resolves to no identity and requireAuth answers 401.
C19_LoggedOutStaysOut ==
  [][\A r \in AuthReqIds :
       (Received(r) /\ req'[r].sid \in loggedOut /\ req'[r].token = NoToken)
         => (/\ req'[r].user = NoUser
             /\ req'[r].route \in RequireAuthRoutes
                  => (req'[r].pc = "done" /\ req'[r].status = 401 /\ ~req'[r].handler))]_vars

\* C20: POST /auth/refresh with a token that verifies answers 200 with a new
\* token whose verified payload has the same user id, username and role,
\* whatever session is presented; with a token that does not verify it
\* answers 401 and issues no token.
C20_RefreshPreservesIdentity ==
  [][\A r \in AuthReqIds :
       (Received(r) /\ req'[r].route = "POST /auth/refresh" /\ req'[r].body # NoBody)
         => LET old == verifyJWT(req'[r].body.refreshToken, now)
            IN IF old # NoUser
               THEN /\ req'[r].status = 200
                    /\ verifyJWT(req'[r].issued, now) = old
               ELSE /\ req'[r].status = 401
                    /\ req'[r].issued = NoToken]_vars

C20_Witness ==
  \E r \in AuthReqIds :
    /\ req[r].pc = "done"
    /\ req[r].route = "POST /auth/refresh"
    /\ req[r].status = 200
    /\ req[r].body = [refreshToken |-> GoodToken]
    /\ req[r].issued # GoodToken
    /\ req[r].sid = "s1"
    /\ verifyJWT(req[r].issued, now).userId = PlainUser.id

\* C21: a bearer token stays valid until its own expiry whatever happened to
\* the session of its login: a request behind requireAuth that carries a token
\* which verifies, while the session it presents is absent (never created,
\* logged out, destroyed) or expired, is admitted with the token's identity.
C21_TokenOutlivesSession ==
  [][\A r \in AuthReqIds :
       (/\ Received(r)
        /\ req'[r].route \in RequireAuthRoutes
        /\ verifies(req'[r].token, now)
        /\ \/ loadSession(req'[r].sid).userId = NoUserId
           \/ expired(loadSession(req'[r].sid), now))
         => (/\ passedRequireAuth(req'[r])
             /\ req'[r].user = req'[r].token.payload)]_vars

-----------------------------------------------------------------------------
(* Claims about the health monitor *)

\* in an updateCoreStatuses() invocation that awaits the probe at position
\* pos of coreConfigs, the probe of the backend at position i is in flight
probeInFlight(pos, i) == pos = i

\* ... the probe of the backend at position i has been issued
probeStarted(pos, i) == pos > 0 /\ i <= pos

\* C22: within a sweep the probes do not wait for each other: while the probe
\* of a backend is in flight, the probe of every backend configured after it
\* has been started too.
C22_ProbesIndependent ==
  \A s \in SweepIds : \A i \in 1..NumCores, j \in 1..NumCores :
    (probeInFlight(sweeps[s], i) /\ j > i) => probeStarted(sweeps[s], j)

\* C24: routing never waits for a sweep: a request that enters
\* intelligentRouter has its backend selected (or is answered 503) in the
\* same turn, from activeConfigs as committed at that moment.
C24_RoutingNeverWaits ==
  [][\A r \in ReqIds :
       (req[r].pc = "arrived" /\ req'[r].pc # "arrived")
         => (/\ req'[r].pc \in {"dispatched", "done"}
             /\ activeConfigs' = activeConfigs
             /\ req'[r].pc = "dispatched"
                  => \E i \in 1..Len(activeConfigs) : activeConfigs[i] = req'[r].core)]_vars

-----------------------------------------------------------------------------
(* Claims about the effects of selection *)

\* the path starts with the prefix of a backend that is in the healthy set
prefixHit(path, active) ==
  \/ startsWith(path, PrefixV1) /\ find(active, "core-api-1") # Null
  \/ startsWith(path, PrefixV2) /\ find(active, "core-api-2") # Null
  \/ startsWith(path, PrefixV3) /\ find(active, "core-api-3") # Null

\* the call op(arg) takes its backend by round-robin over the healthy set active
roundRobinUsed(op, arg, active) ==
  /\ Len(active) > 0
  /\ \/ op = "selectCore"
     \/ op = "selectCoreByPath" /\ ~prefixHit(arg, active)

\* C27: a call of selectCore, selectCoreByUser or selectCoreByPath changes
\* nothing but the round-robin counter: the flags, the healthy set and the
\* metrics store stay; the counter goes up by 1 when the backend is taken by
\* round-robin and stays for user affinity, a prefix hit or an empty healthy
\* set. The counter never decreases.
C27_SelectionFrame ==
  [][/\ currentCoreIndex' >= currentCoreIndex
     /\ (ret' # ret \/ currentCoreIndex' # currentCoreIndex)
          => (/\ UNCHANGED <<isActive, activeConfigs, reachable, sweeps, fwdVars, req, authVars>>
              /\ currentCoreIndex' = currentCoreIndex
                   + (IF roundRobinUsed(ret'.op, ret'.arg, activeConfigs) THEN 1 ELSE 0))]_vars

C27_Witness ==
  /\ ret.op = "selectCoreByPath"
  /\ ret.arg = PathApiV1
  /\ ret.core = "core-api-1"
  /\ currentCoreIndex = 2
  /\ Len(activeConfigs) = 2

\* the request has been routed and its backend was taken by round-robin
routedByRoundRobin(rq) ==
  /\ rq.core # Null
  /\ rq.session.userId = NoUserId
  /\ \/ ~(\E p \in {PrefixV1, PrefixV2, PrefixV3} : startsWith(mountedPath(rq.url), p))
     \/ startsWith(mountedPath(rq.url), PrefixV1) /\ rq.core # "core-api-1"
     \/ startsWith(mountedPath(rq.url), PrefixV2) /\ rq.core # "core-api-2"
     \/ startsWith(mountedPath(rq.url), PrefixV3) /\ rq.core # "core-api-3"

\* C28: round-robin selections of concurrent requests are indivisible. No
\* increment is lost: the counter equals the number of requests routed by
\* round-robin. A selection picks healthySet[counter % n] and leaves the
\* counter one higher in the same step, so no later selection reads the
\* value it read.
C28_RoundRobinAtomic ==
  /\ [](currentCoreIndex = Cardinality({r \in SlotIds : routedByRoundRobin(req[r])}))
  /\ [][\A r \in SlotIds :
          (req[r].core = Null /\ routedByRoundRobin(req'[r]))
            => (/\ currentCoreIndex' = currentCoreIndex + 1
                /\ req'[r].core =
                     activeConfigs'[(currentCoreIndex % Len(activeConfigs')) + 1]
                /\ \A q \in SlotIds \ {r} : req'[q] = req[q])]_vars

C28_Witness ==
  /\ currentCoreIndex = 2
  /\ \A r \in {1, 2} : routedByRoundRobin(req[r]) /\ req[r].pc = "proxying"
  /\ req[1].core # req[2].core

-----------------------------------------------------------------------------
(* Claims about forwarding *)

\* the request was handed to a backend and onProxyReq has run for it
forwarded(rq) == rq.core # Null /\ rq.pc \in {"proxying", "done"}

\* C29: a forwarded request has one fresh correlation id, different from that
\* of every other request, which is the x-request-id header of the request
\* sent to the backend; the recorded outcome carries the same id and is
\* recorded only once the request is answered.
C29_CorrelationId ==
  /\ \A r \in ReqIds :
       forwarded(req[r])
         => (/\ req[r].requestId \in 1..uuids
             /\ req[r].proxyReqId = req[r].requestId)
  /\ \A r \in ReqIds, q \in ReqIds :
       (forwarded(req[r]) /\ forwarded(req[q]) /\ r # q) => req[r].requestId # req[q].requestId
  /\ \A i \in 1..Len(outcomeLog) :
       \E r \in ReqIds : /\ req[r].pc = "done"
                         /\ req[r].requestId = outcomeLog[i].requestId
                         /\ req[r].core = outcomeLog[i].targetCore

-----------------------------------------------------------------------------
(* Claims about sweeps *)

\* position of the probe awaited by the sweep that request object rq runs, 0 when it runs none
sweepOf(rq) == IF rq.pc \in {"sweeping", "checking"} THEN rq.sweepPos ELSE 0

\* some updateCoreStatuses() invocation has not finished
sweepRunning ==
  \/ \E s \in SweepIds : sweeps[s] > 0
  \/ \E r \in SlotIds : sweepOf(req[r]) > 0

\* in this step a sweep resumes after the probe at position pos
sweepResumes(pos) ==
  \/ \E s \in SweepIds : sweeps[s] = pos /\ sweeps'[s] # pos
  \/ \E r \in SlotIds : sweepOf(req[r]) = pos /\ req'[r] # req[r]

\* C23: overlapping sweeps of the three origins leave the registry right:
\* with reachability unchanged, when the last running sweep finishes every
\* flag equals the backend's reachability and activeConfigs is the reachable
\* backends in configuration order.
C23_OverlappingSweepsSafe ==
  [][(sweepRunning /\ ~sweepRunning')
       => (/\ \A c \in CoreNames : isActive'[c] = reachable[c]
           /\ activeConfigs' = SelectSeq(coreConfigs, LAMBDA c : reachable[c]))]_vars

C23_Witness ==
  /\ \E s \in SweepIds : sweeps[s] = 3
  /\ \E r \in SlotIds : req[r].pc = "sweeping" /\ req[r].sweepPos = 2
  /\ \E r \in SlotIds : req[r].pc = "checking" /\ req[r].sweepPos = 1
  /\ ~reachable["core-api-1"]
  /\ ~isActive["core-api-1"]
  /\ Len(activeConfigs) = 3

\* position of backend c in coreConfigs
posOf(c) == CHOOSE i \in 1..NumCores : coreConfigs[i] = c

\* C25: health changes in sweeps only, and sweeping is idempotent. A flag
\* changes only when a sweep resumes after probing that backend, and then to
\* what the probe found; activeConfigs changes only when a sweep finishes. A
\* change of reachability by itself, and the success or failure of a
\* forwarded request, change neither; a sweep step over flags that already
\* agree with reachability changes nothing.
C25_SweepIdempotentOnlyWriter ==
  [][/\ \A c \in CoreNames :
          isActive'[c] # isActive[c]
            => (sweepResumes(posOf(c)) /\ isActive'[c] = reachable[c])
     /\ activeConfigs' # activeConfigs
          => (sweepResumes(NumCores) /\ activeConfigs' = filterActive(isActive'))
     /\ reachable' # reachable => UNCHANGED <<isActive, activeConfigs>>
     /\ (\E r \in SlotIds : req[r].pc \in {"dispatched", "proxying"} /\ req'[r] # req[r])
          => UNCHANGED <<isActive, activeConfigs>>
     /\ (/\ \A c \in CoreNames : isActive[c] = reachable[c]
         /\ activeConfigs = filterActive(isActive)
         /\ reachable' = reachable)
          => UNCHANGED <<isActive, activeConfigs>>]_vars

C25_Witness ==
  \E r \in SlotIds :
    /\ req[r].pc = "done"
    /\ req[r].status = 502
    /\ isActive[req[r].core]
    /\ ~reachable[req[r].core]
    /\ \E c \in CoreNames : ~isActive[c] /\ reachable[c]

\* C26: checkCoreHealth gives true exactly for a response with a 2xx status
\* that arrives before the abort, false for every other course of the probe,
\* and never throws; so each resumption of updateCoreStatuses writes the flag
\* of the backend it probed and goes on to the next backend, and the sweep
\* ends only after the last one.
C26_ProbeNeverThrows ==
  [][\A s \in SweepIds :
       (sweeps[s] > 0 /\ sweeps'[s] # sweeps[s])
         => LET c == coreConfigs[sweeps[s]]
                o == ret'.arg
            IN /\ ret'.op = "checkCoreHealth"
               /\ ret'.core = c
               /\ ~ret'.thrown
               /\ isActive'[c] <=> (/\ o.kind = "response"
                                    /\ o.status >= 200 /\ o.status < 300
                                    /\ o.ms < ProbeTimeout)
               /\ sweeps'[s] = IF sweeps[s] = NumCores THEN 0 ELSE sweeps[s] + 1]_vars

C26_Witness ==
  /\ ret.op = "checkCoreHealth"
  /\ ret.arg = [kind |-> "response", status |-> 200, ms |-> ProbeTimeout + 1]
  /\ ret.core = coreConfigs[NumCores]
  /\ ~isActive[ret.core]
  /\ \A s \in SweepIds : sweeps[s] = 0
  /\ Len(activeConfigs) = NumCores - 1

-----------------------------------------------------------------------------
(* Claims about responses *)

\* C30: a request gets at most one response. No response has gone out while
\* the request is still being processed, and once one has gone out (401,
\* 'Session Expired' from the destroy callback, 403, 503, the backend's
\* response, 502) the status the client received stays until the request
\* object is released, also when the forwarding fails after the response.
C30_OneResponse ==
  /\ [](\A r \in SlotIds : req[r].pc # "done" => req[r].status = 0)
  /\ [][\A r \in SlotIds :
          req[r].pc = "done"
            => \/ req'[r] = NewReq
               \/ req'[r].pc = "done" /\ req'[r].status = req[r].status]_vars

C30_Witness ==
  \E r \in SlotIds :
    /\ req[r].pc = "done"
    /\ req[r].status = 200
    /\ req[r].error = "ERR_HTTP_HEADERS_SENT"
    /\ req[r].requestId > 0

-----------------------------------------------------------------------------
(* Claims about termination *)

\* the statuses intelligentRouter and the forwarding callbacks answer with
RouterStatuses == BackendStatuses \cup {500, 502, 503}

\* C31: under fairness every started sweep completes, and every request that
\* entered intelligentRouter is answered (the backend's response, 502, 503
\* or 500), also when the selected backend never answers and when the
\* request awaits a sweep of its own first.
C31_SweepsEndRequestsAnswered ==
  /\ \A s \in SweepIds : (sweeps[s] > 0) ~> (sweeps[s] = 0)
  /\ \A r \in ReqIds :
       (req[r].pc \in {"arrived", "sweeping", "dispatched", "proxying"})
         ~> (req[r].pc = "done" /\ req[r].status \in RouterStatuses)

\* a request forwarded to a backend that answers nothing got its 502
C31_Witness ==
  \E r \in ReqIds :
    /\ req[r].pc = "done"
    /\ req[r].status = 502
    /\ req[r].proxyReqId = 0
    /\ ~reachable[req[r].core]
    /\ \A s \in SweepIds : sweeps[s] = 0

-----------------------------------------------------------------------------
(* Claims about the recorded outcomes *)

\* the outcome recorded for a forwarded request
outcomeOf(rq) ==
  CHOOSE m \in {outcomeLog[i] : i \in 1..Len(outcomeLog)} : m.requestId = rq.requestId

\* C32: the elapsed time stored in the outcome of a forwarded request is
\* the time between its dispatch to the backend and the receipt of the
\* backend's response (response tick minus dispatch tick).
C32_ElapsedTime ==
  \A r \in SlotIds :
    (req[r].pc = "done" /\ req[r].status \in BackendStatuses /\ req[r].core # Null)
      => outcomeOf(req[r]).responseTime = outcomeOf(req[r]).timestamp - req[r].dispatchedAt

\* the sum of the values of a function with a finite domain
RECURSIVE sumOf(_)
sumOf(f) ==
  IF DOMAIN f = {} THEN 0
  ELSE LET k == CHOOSE x \in DOMAIN f : TRUE
       IN f[k] + sumOf([x \in DOMAIN f \ {k} |-> f[x]])

\* the numbers of entries of the store with a status, and with a backend
entriesWithStatus(st) == Cardinality({i \in 1..Len(requestMetrics) : requestMetrics[i].statusCode = st})

entriesWithCore(c) == Cardinality({i \in 1..Len(requestMetrics) : requestMetrics[i].targetCore = c})

\* a request for GET /proxy/metrics answered with the summary; no outcome was
\* recorded since
metricsAnswered(rq) == rq.pc = "done" /\ rq.route = "GET /proxy/metrics" /\ rq.status = 200

\* C33: the metrics summary is computed over the whole retained window and
\* is self-consistent: totalRequests is the number of retained outcomes, the
\* status-code counts and the per-backend counts count the retained outcomes
\* and each sum to totalRequests, the average is 0 when the store is empty,
\* and the recent list is the last min(50, totalRequests) outcomes in
\* arrival order.
C33_SummaryConsistent ==
  \A r \in SlotIds :
    metricsAnswered(req[r]) =>
      LET summary == req[r].json.summary
          recent == req[r].json.recentMetrics
          total == Len(requestMetrics)
      IN /\ summary.totalRequests = total
         /\ sumOf(summary.statusCodeCounts) = total
         /\ sumOf(summary.coreUsage) = total
         /\ \A st \in DOMAIN summary.statusCodeCounts :
              summary.statusCodeCounts[st] = entriesWithStatus(st)
         /\ \A c \in DOMAIN summary.coreUsage :
              summary.coreUsage[c] = entriesWithCore(c)
         /\ total = 0 => summary.avgResponseTime = 0
         /\ Len(recent) = (IF total < 50 THEN total ELSE 50)
         /\ \A i \in 1..Len(recent) : recent[i] = requestMetrics[total - Len(recent) + i]

\* the summary of a full store that holds both statuses
C33_Witness ==
  \E r \in SlotIds :
    /\ metricsAnswered(req[r])
    /\ req[r].json.summary.totalRequests = MetricsCapacity
    /\ DOMAIN req[r].json.summary.statusCodeCounts = BackendStatuses
    /\ DOMAIN req[r].json.summary.coreUsage = CoreNames
    /\ Len(req[r].json.recentMetrics) = 50

-----------------------------------------------------------------------------
(* Claims about the hash *)

\* C34: for every id, simpleHash is a non-negative integer not above 2^31,
\* so for a healthy set of n >= 1 backends the index hash % n lies in
\* 0..n-1 and selectCoreByUser returns a member of the set, never null,
\* also for ids whose folded hash is negative or is -2^31.
C34_HashIndexInRange ==
  ret.op = "simpleHash" =>
    LET n == Len(ret.active)
    IN /\ ret.hash.hi \in 0..32768
       /\ ret.hash.lo \in 0..65535
       /\ ret.hash.hi = 32768 => ret.hash.lo = 0
       /\ n >= 1 => /\ ret.coreIndex \in 0..(n - 1)
                    /\ ret.core # Null
                    /\ \E i \in 1..n : ret.active[i] = ret.core

\* the id whose folded hash is -2^31, with three backends to select from
C34_Witness ==
  /\ ret.op = "simpleHash"
  /\ ret.arg = IdGydZG
  /\ ret.hash = [hi |-> 32768, lo |-> 0]
  /\ Len(ret.active) = 3
  /\ ret.coreIndex = 2
  /\ ret.core = ret.active[3]

====
